---- MODULE Spec2Model ----
(***************************************************************************)
(* Smart Dispatcher of logistima-server: the driver reservation engine     *)
(* (DriverService.reserveDriver / releaseDriver), the Redis lock it runs   *)
(* under, the delivery handlers that call it, and assignOptimalDriver.     *)
(*                                                                         *)
(* Every request is run by a worker.  A worker's request is a sequence of  *)
(* atomic steps, one per awaited call of the handler that touches shared   *)
(* state (Redis, a database row, a row lock), so that requests of          *)
(* different workers interleave exactly where the awaits let them.         *)
(***************************************************************************)
EXTENDS Integers, Sequences, FiniteSets, TLC

\* ------------------------------------------------------------------ bounds
\* Largest maxCapacity a driver row is created with.
MaxCap == 2

\* Number of delivery ids (a delivery id is never used twice).
MaxDeliveries == 2

\* Number of HTTP requests served in one behaviour of the delivery handlers.
MaxRequests == 4

\* Most releaseDriver calls counted for one delivery.
MaxReleases == 2

\* Largest maxRetries atomicOperation is called with.
MaxRetries == 2

\* Number of writes to the key by other clients of the Redis server.
MaxWrites == 2

\* ------------------------------------------------------------- identities
Deliveries == 1..MaxDeliveries
Parcels == {"p1", "p2"}
Workers == {"w1", "w2"}
Drivers == {"d1", "d2", "d3", "d4"}
NoOne == "none"
NoTxn == <<"none", "none">>

\* DriverStatus (models/Driver.model)
AVAILABLE == "available"
BUSY == "busy"
OFFLINE == "offline"
DriverStatus == {AVAILABLE, BUSY, OFFLINE}

\* DeliveryStatus (models/Delivery.model)
STARTED == "started"
COMPLETED == "completed"
CANCELLED == "cancelled"
DeliveryStatus == {STARTED, COMPLETED, CANCELLED}

\* A delivery id whose row was destroyed.
Deleted == [absent |-> TRUE, deleted |-> TRUE]

NoEntry == [absent |-> TRUE]

VARIABLES
    driver,       \* drivers table, committed rows: currentLoad, maxCapacity, status
    rowLock,      \* drivers table: the transaction holding the row (SELECT ... FOR UPDATE)
    locks,        \* Redis: the lock keys that are set
    availCache,   \* Redis: driver:<id>:availability
    nearbyCache,  \* Redis: drivers:nearby:<lat>:<lng>:<radius>:<limit>
    eng,          \* per worker: the reserveDriver / releaseDriver call it is inside
    ctl,          \* per worker: the request it is serving
    parcel,       \* parcels table, committed rows: status, driverId
    delivery,     \* deliveries table, committed rows: parcelId, driverId, status
    dRowLock,     \* deliveries table: the transaction holding the row
    released,     \* per delivery: the releaseDriver calls made for it that returned true
    requests,     \* the number of HTTP requests accepted so far
    recent,       \* drivers table: the ids by updatedAt, the latest first
    atomic,       \* Redis: a key atomicOperation works on, the connection's WATCH, the calls
    freed         \* per parcel: the releaseDriver calls made for it that took a load off

\* The deliveries table and what is recorded about it.
\* ParcelStatus, and the statuses a request may name.
PENDING == "pending"
PICKED == "picked"
DELIVERED == "delivered"
IN_TRANSIT == "in_transit"
RETURNED == "returned"
LOST == "lost"

\* A parcel as createParcel stores it: pending, no driver.
NewParcel == [status |-> PENDING, driverId |-> NoOne]

dlv == <<delivery, dRowLock, released>>

vars == <<driver, parcel, recent, atomic, freed, rowLock, locks, availCache, nearbyCache, eng, ctl, dlv, requests>>

\* timestamps: true: a saved row's updatedAt becomes the latest.
touch(d) == <<d>> \o SelectSeq(recent, LAMBDA e : e # d)

\* --------------------------------------------------------- RedisService
\* acquireLock prefixes every key with "lock:"; a key is modelled by the pair
\* of its prefix and the id it is built from.
reserveKey(d) == <<"driver:reserve", d>>
releaseKey(d) == <<"driver:release", d>>

\* A lock acquisition that sets the key without the NX condition.
acquireLockAlways(key) == TRUE

\* SET key value NX PX ttl: the key is set iff it was absent; the answer is
\* whether it was set.
acquireLock(key) == key \notin locks
locksAfterAcquire(key) == locks \cup {key}

\* A release that leaves the key where it is.
releaseLockNever(key) == locks

\* DEL key, whoever set it.
releaseLock(key) == locks \ {key}

\* The PX ttl of a lock key runs out: Redis drops the key, wherever its
\* holder is.
LockExpire(key) ==
    /\ key \in locks
    /\ locks' = locks \ {key}
    /\ UNCHANGED <<atomic, freed, parcel, recent, requests, dlv, driver, rowLock, availCache, nearbyCache, eng, ctl>>

\* atomicOperation(key, operation, maxRetries) on one key, whose value is a
\* counter and whose operation adds one. The calls of a server share the
\* connection this.client, and WATCH is a state of the connection: "none"
\* (nothing watched), "clean" (the key watched and not written since) or
\* "dirty" (written since). EXEC and UNWATCH forget the connection's watches.
NoCall == [pc |-> "idle", maxRetries |-> 0, retries |-> 0, read |-> 0, result |-> "none"]

AtomicIdle == [value |-> 0, watch |-> "none", writes |-> 0, call |-> [w \in Workers |-> NoCall]]

\* The rest of the state, which atomicOperation leaves alone.
atomicOnly ==
    UNCHANGED <<driver, parcel, recent, freed, rowLock, locks, availCache, nearbyCache, eng,
                ctl, delivery, dRowLock, released, requests>>

\* let retries = 0; while (retries < maxRetries)
atomicOperation(w, maxRetries) ==
    /\ atomic.call[w].pc = "idle"
    /\ atomic.call[w].result = "none"
    /\ atomic' = [atomic EXCEPT !.call[w] = [NoCall EXCEPT !.pc = "watch",
                                                          !.maxRetries = maxRetries]]
    /\ atomicOnly

\* await this.client.watch(key)
atomicWatch(w) ==
    /\ atomic.call[w].pc = "watch"
    /\ atomic' = [atomic EXCEPT !.watch = IF @ = "none" THEN "clean" ELSE @,
                                !.call[w].pc = "get"]
    /\ atomicOnly

\* const currentValue = await this.get(key); newValue = await operation(currentValue)
atomicGet(w) ==
    /\ atomic.call[w].pc = "get"
    /\ atomic' = [atomic EXCEPT !.call[w].read = atomic.value, !.call[w].pc = "exec"]
    /\ atomicOnly

\* multi.set(key, newValue); results = await multi.exec(): null when the
\* connection's watch is dirty, and then retries++ and the loop's test; else
\* the value is written and returned. Either way the connection watches
\* nothing afterwards.
atomicExec(w) ==
    /\ atomic.call[w].pc = "exec"
    /\ atomic' =
         IF atomic.watch = "dirty"
         THEN [atomic EXCEPT !.watch = "none",
                             !.call[w].retries = @ + 1,
                             !.call[w].pc = IF atomic.call[w].retries + 1 < atomic.call[w].maxRetries
                                            THEN "watch" ELSE "ret",
                             !.call[w].result = IF atomic.call[w].retries + 1 < atomic.call[w].maxRetries
                                                THEN "none" ELSE "AppError"]
         ELSE [atomic EXCEPT !.watch = "none",
                             !.value = atomic.call[w].read + 1,
                             !.call[w].pc = "ret",
                             !.call[w].result = "written"]
    /\ atomicOnly

\* Another client of the Redis server (another server process) writes the
\* key: a connection watching it becomes dirty.
otherClientSet ==
    /\ atomic.writes < MaxWrites
    /\ atomic' = [atomic EXCEPT !.value = @ + 1, !.writes = @ + 1,
                                !.watch = IF @ = "clean" THEN "dirty" ELSE @]
    /\ atomicOnly

\* ------------------------------------------------- DriverService, engine
\* The call a worker is inside: read is the row as findByPk read it, row the
\* instance (read, then as driver.update left it), ret the value returned and
\* wrote whether the call committed its update.
EngIdle == [op |-> "none", pc |-> "idle", drv |-> NoOne, read |-> NoEntry,
            row |-> NoEntry, ret |-> FALSE, wrote |-> FALSE,
            held |-> FALSE, thrown |-> FALSE, err |-> ""]

EngCall(op, d) == [EngIdle EXCEPT !.op = op, !.pc = "acquire", !.drv = d]

\* reserveDriver with the capacity check off by one (> for >=).
reserveRefusedOffByOne(row) ==
    \/ row.currentLoad > row.maxCapacity
    \/ row.status # AVAILABLE

\* reserveDriver without its status check.
reserveRefusedCapacityOnly(row) == row.currentLoad >= row.maxCapacity

\* reserveDriver's guards on the row it read: the capacity check, then the
\* status check.
reserveRefused(row) ==
    \/ row.currentLoad >= row.maxCapacity
    \/ row.status # AVAILABLE

\* The row reserveDriver writes.
reservedRow(row) ==
    [row EXCEPT !.currentLoad = row.currentLoad + 1,
                !.status = IF row.currentLoad + 1 >= row.maxCapacity
                           THEN BUSY ELSE AVAILABLE]

\* releaseDriver with the guard off by one (< for <=).
releaseRefusedOffByOne(row) == row.currentLoad < 0

\* releaseDriver's guard on the row it read.
releaseRefused(row) == row.currentLoad <= 0

\* The row releaseDriver writes.
releasedRow(row) ==
    [row EXCEPT !.currentLoad = row.currentLoad - 1,
                !.status = IF row.currentLoad - 1 > 0
                           THEN AVAILABLE ELSE row.status]

\* The capacity cache entry both operations write from the updated instance.
availabilityEntry(row) ==
    [available |-> row.currentLoad < row.maxCapacity,
     capacity |-> row.maxCapacity,
     currentLoad |-> row.currentLoad]

engKey(e) == IF e.op = "reserve" THEN reserveKey(e.drv) ELSE releaseKey(e.drv)
engRefused(e) == IF e.op = "reserve" THEN reserveRefused(e.read)
                 ELSE releaseRefused(e.read)
engRow(e) == IF e.op = "reserve" THEN reservedRow(e.read) ELSE releasedRow(e.read)

\* acquireLock(lockKey, 5000); not acquired: return false.
engAcquire(w) ==
    /\ eng[w].pc = "acquire"
    /\ IF acquireLock(engKey(eng[w]))
       THEN /\ locks' = locksAfterAcquire(engKey(eng[w]))
            /\ eng' = [eng EXCEPT ![w].pc = "find", ![w].held = TRUE]
       ELSE /\ locks' = locks
            /\ eng' = [eng EXCEPT ![w].pc = "ret", ![w].ret = FALSE]
    /\ UNCHANGED <<atomic, freed, parcel, recent, requests, dlv, driver, rowLock, availCache, nearbyCache, ctl>>

\* findByPk without lock: UPDATE: the read waits for nobody.
findWithoutLock(txn, d) == TRUE

\* What the drivers table holds for an id it has no row for.
NoRow == [currentLoad |-> 0, maxCapacity |-> 0, status |-> "none"]

\* The row read of Driver.findByPk(driverId, {transaction, lock}): with
\* lock: UPDATE the statement waits for the row's holder and then reads the
\* committed row.
findForUpdate(txn, d) == rowLock[d] = NoTxn
rowLockAfterFind(txn, d) == [rowLock EXCEPT ![d] = txn]

\* The transaction reserveDriver / releaseDriver opens for itself.
engTxn(w) == <<w, "service">>

\* sequelize.transaction(); Driver.findByPk(driverId, {transaction, lock: UPDATE})
engFind(w) ==
    /\ eng[w].pc = "find"
    /\ driver[eng[w].drv] # NoRow
    /\ findForUpdate(engTxn(w), eng[w].drv)
    /\ rowLock' = rowLockAfterFind(engTxn(w), eng[w].drv)
    /\ eng' = [eng EXCEPT ![w].pc = "update", ![w].read = driver[eng[w].drv],
                           ![w].row = driver[eng[w].drv]]
    /\ UNCHANGED <<atomic, freed, parcel, recent, requests, dlv, driver, locks, availCache, nearbyCache, ctl>>

\* commit or rollback: the rows the transaction holds are let go.
rowLockFreed(txn) == [d \in Drivers |-> IF rowLock[d] = txn THEN NoTxn ELSE rowLock[d]]

\* The guards; refused: transaction.rollback() and return false (the finally
\* block still runs); else driver.update(..., {transaction}).
engUpdate(w) ==
    /\ eng[w].pc = "update"
    /\ IF engRefused(eng[w])
       THEN /\ rowLock' = rowLockFreed(engTxn(w))
            /\ eng' = [eng EXCEPT ![w].pc = "finally", ![w].ret = FALSE]
       ELSE /\ rowLock' = rowLock
            /\ eng' = [eng EXCEPT ![w].pc = "cache", ![w].row = engRow(eng[w])]
    /\ UNCHANGED <<atomic, freed, parcel, recent, requests, dlv, driver, locks, availCache, nearbyCache, ctl>>

\* redisService.setWithExpiry(cacheKey, {...}, 60000)
engCache(w) ==
    /\ eng[w].pc = "cache"
    /\ availCache' = [availCache EXCEPT ![eng[w].drv] = availabilityEntry(eng[w].row)]
    /\ eng' = [eng EXCEPT ![w].pc = "delPattern"]
    /\ UNCHANGED <<atomic, freed, parcel, recent, requests, dlv, driver, rowLock, locks, nearbyCache, ctl>>

\* redisService.delPattern('drivers:nearby:*')
engDelPattern(w) ==
    /\ eng[w].pc = "delPattern"
    /\ nearbyCache' = NoEntry
    /\ eng' = [eng EXCEPT ![w].pc = "commit"]
    /\ UNCHANGED <<atomic, freed, parcel, recent, requests, dlv, driver, rowLock, locks, availCache, ctl>>

\* transaction.commit(); return true
engCommit(w) ==
    /\ eng[w].pc = "commit"
    /\ driver' = [driver EXCEPT ![eng[w].drv] = eng[w].row]
    /\ recent' = touch(eng[w].drv)
    /\ rowLock' = rowLockFreed(engTxn(w))
    /\ eng' = [eng EXCEPT ![w].pc = "finally", ![w].ret = TRUE, ![w].wrote = TRUE]
    /\ UNCHANGED <<atomic, freed, parcel, requests, dlv, locks, availCache, nearbyCache, ctl>>

\* finally: redisService.releaseLock(lockKey)
engFinally(w) ==
    /\ eng[w].pc = "finally"
    /\ locks' = releaseLock(engKey(eng[w]))
    /\ eng' = [eng EXCEPT ![w].pc = "ret", ![w].held = FALSE]
    /\ UNCHANGED <<atomic, freed, parcel, recent, requests, dlv, driver, rowLock, availCache, nearbyCache, ctl>>

\* acquireLock answering true when the SET raised an error.
lockOnErrorOpen == TRUE

\* acquireLock's catch: return false.
lockOnError == FALSE

\* The store is unreachable: client.set raises inside acquireLock, which
\* catches the error and gives its answer to reserveDriver / releaseDriver.
engAcquireError(w) ==
    /\ eng[w].pc = "acquire"
    /\ eng' = [eng EXCEPT ![w] =
                 IF lockOnError
                 THEN [@ EXCEPT !.pc = "find", !.err = "store"]
                 ELSE [@ EXCEPT !.pc = "ret", !.ret = FALSE, !.err = "store"]]
    /\ UNCHANGED <<atomic, freed, parcel, recent, requests, dlv, driver, rowLock, locks, availCache, nearbyCache, ctl>>

\* sequelize.transaction() throws: it is called after the lock was acquired
\* and before the try, so the error leaves the function at once.
engBeginThrow(w) ==
    /\ eng[w].pc = "find"
    /\ eng' = [eng EXCEPT ![w].pc = "ret", ![w].ret = FALSE, ![w].thrown = TRUE]
    /\ UNCHANGED <<atomic, freed, parcel, recent, requests, dlv, driver, rowLock, locks, availCache, nearbyCache, ctl>>

\* A statement of the transaction throws (findByPk, driver.update, commit):
\* catch: transaction.rollback(); throw error, past the finally.
engThrow(w) ==
    /\ eng[w].pc \in {"find", "update", "commit"}
    /\ rowLock' = rowLockFreed(engTxn(w))
    /\ eng' = [eng EXCEPT ![w].pc = "finally", ![w].ret = FALSE, ![w].thrown = TRUE]
    /\ UNCHANGED <<atomic, freed, parcel, recent, requests, dlv, driver, locks, availCache, nearbyCache, ctl>>

\* findByPk finds no row: throw new AppError('Driver ... not found', 404);
\* catch: transaction.rollback(); throw error, past the finally.
engNotFound(w) ==
    /\ eng[w].pc = "find"
    /\ driver[eng[w].drv] = NoRow
    /\ eng' = [eng EXCEPT ![w].pc = "finally", ![w].ret = FALSE, ![w].thrown = TRUE,
                           ![w].err = "notFound"]
    /\ UNCHANGED <<atomic, freed, parcel, recent, requests, dlv, driver, rowLock, locks, availCache,
                   nearbyCache, ctl>>

\* A driver's row is deleted from the drivers table; no handler of the
\* server does it, the statement comes from outside it.
driverRemoved(d) ==
    /\ driver[d] # NoRow
    /\ rowLock[d] = NoTxn
    /\ driver' = [driver EXCEPT ![d] = NoRow]
    /\ UNCHANGED <<atomic, freed, parcel, recent, requests, dlv, rowLock, locks, availCache, nearbyCache,
                   eng, ctl>>

\* The PX ttl of the key runs out under the one caller that holds it: the
\* caller outlives its lock.
holderOutlivesLock(w) ==
    /\ eng[w].held
    /\ eng[w].pc # "ret"
    /\ engKey(eng[w]) \in locks
    /\ \A v \in Workers \ {w} : ~eng[v].held
    /\ locks' = locks \ {engKey(eng[w])}
    /\ eng' = [eng EXCEPT ![w].err = "expired"]
    /\ UNCHANGED <<atomic, freed, parcel, recent, requests, dlv, driver, rowLock, availCache, nearbyCache, ctl>>

\* One step of the reserveDriver / releaseDriver call worker w is inside.
engStep(w) ==
    \/ engAcquire(w)
    \/ engFind(w)
    \/ engUpdate(w)
    \/ engCache(w)
    \/ engDelPattern(w)
    \/ engCommit(w)
    \/ engFinally(w)

\* ------------------------------------------------------------- requests
\* The request a worker is serving: the handler, its place in it and what it
\* was given and has read.
CtlIdle == [op |-> "none", pc |-> "idle", del |-> 0, drv |-> NoOne, parcel |-> NoOne,
            arg |-> NoOne, read |-> NoEntry, err |-> "", result |-> "",
            priority |-> 0, cands |-> <<>>, tried |-> <<>>, loaded |-> <<>>,
            force |-> FALSE, prev |-> NoOne, unloaded |-> <<>>]

idle(w) == ctl[w].pc = "idle" /\ eng[w].pc = "idle"

\* No request is in flight.
quiescent == \A w \in Workers : ctl[w].pc \in {"idle", "done"} /\ eng[w].pc = "idle"

\* The server takes one more request.
accept ==
    /\ requests < MaxRequests
    /\ requests' = requests + 1

\* A caller's await driverService.reserveDriver(d) / releaseDriver(d).
callEngine(w, op, d) ==
    /\ idle(w)
    /\ eng' = [eng EXCEPT ![w] = EngCall(op, d)]
    /\ UNCHANGED <<atomic, freed, parcel, recent, requests, dlv, driver, rowLock, locks, availCache, nearbyCache, ctl>>

reserveDriver(w, d) == callEngine(w, "reserve", d)
releaseDriver(w, d) == callEngine(w, "release", d)

\* A request that reserves the driver it names.
reserveRequest(w, d) ==
    /\ idle(w)
    /\ accept
    /\ eng' = [eng EXCEPT ![w] = EngCall("reserve", d)]
    /\ UNCHANGED <<atomic, freed, parcel, recent, dlv, driver, rowLock, locks, availCache, nearbyCache, ctl>>

\* The call has returned to its caller, which goes on to other work.
engReturn(w) ==
    /\ ctl[w].pc = "idle"
    /\ eng[w].pc = "ret"
    /\ eng' = [eng EXCEPT ![w] = EngIdle]
    /\ UNCHANGED <<atomic, freed, parcel, recent, requests, dlv, driver, rowLock, locks, availCache, nearbyCache, ctl>>

\* -------------------------------------------------- DeliveryController
\* lockKey = `lock:delivery:${id}`, shared by updateDeliveryStatus,
\* deleteDelivery and the status webhook.
deliveryKey(x) == <<"lock:delivery", x>>

\* The transaction a handler opens with sequelize.transaction().
ctlTxn(w) == <<w, "request">>

live(x) == delivery[x] # NoEntry /\ delivery[x] # Deleted

dRowLockFreed(txn) ==
    [x \in Deliveries |-> IF dRowLock[x] = txn THEN NoTxn ELSE dRowLock[x]]

\* A releaseDriver call made for delivery x has returned ret.
releasedAfter(x, ret) ==
    IF ret /\ released[x] < MaxReleases
    THEN [released EXCEPT ![x] = released[x] + 1] ELSE released

\* validateStatusTransition: does not throw.
validateStatusTransition(currentStatus, newStatus) ==
    newStatus \in (CASE currentStatus = STARTED -> {COMPLETED, CANCELLED}
                     [] currentStatus = COMPLETED -> {}
                     [] currentStatus = CANCELLED -> {})

\* The request is answered; the worker is free again.
respond(w) ==
    /\ ctl[w].pc = "done"
    /\ ctl' = [ctl EXCEPT ![w] = CtlIdle]
    /\ UNCHANGED <<atomic, freed, parcel, recent, requests, dlv, driver, rowLock, locks, availCache, nearbyCache, eng>>

\* POST /deliveries {parcelId, driverId}
createDelivery(w, p, d) ==
    /\ idle(w)
    /\ accept
    /\ Cardinality({x \in Deliveries : delivery[x] = NoEntry})
         > Cardinality({v \in Workers : ctl[v].op = "createDelivery"})
    /\ ctl' = [ctl EXCEPT ![w] = [CtlIdle EXCEPT !.op = "createDelivery", !.pc = "findOne",
                                                 !.parcel = p, !.drv = d]]
    /\ UNCHANGED <<atomic, freed, parcel, recent, dlv, driver, rowLock, locks, availCache, nearbyCache, eng>>

\* Delivery.findOne({where: {parcelId}}): found: 409; else reserveDriver(driverId).
createFindOne(w) ==
    /\ ctl[w].op = "createDelivery" /\ ctl[w].pc = "findOne"
    /\ IF \E x \in Deliveries : live(x) /\ delivery[x].parcelId = ctl[w].parcel
       THEN /\ ctl' = [ctl EXCEPT ![w].pc = "done", ![w].result = "409"]
            /\ eng' = eng
       ELSE /\ ctl' = [ctl EXCEPT ![w].pc = "reserve"]
            /\ eng' = [eng EXCEPT ![w] = EngCall("reserve", ctl[w].drv)]
    /\ UNCHANGED <<atomic, freed, parcel, recent, requests, dlv, driver, rowLock, locks, availCache, nearbyCache>>

\* reserveDriver returned true and Delivery.create rejects (the insert
\* fails): catch (error) { next(error) }, nothing else.
createThrows(w) ==
    /\ ctl[w].op = "createDelivery" /\ ctl[w].pc = "reserve"
    /\ eng[w].pc = "ret"
    /\ eng[w].ret
    /\ eng' = [eng EXCEPT ![w] = EngIdle]
    /\ ctl' = [ctl EXCEPT ![w].pc = "done", ![w].result = "500", ![w].err = "thrown"]
    /\ UNCHANGED <<atomic, freed, parcel, recent, requests, dlv, driver, rowLock, locks, availCache, nearbyCache>>

freshDelivery == CHOOSE x \in Deliveries :
    delivery[x] = NoEntry /\ \A y \in Deliveries : delivery[y] = NoEntry => x <= y

\* reserveDriver returned: false: 409; true: Delivery.create({parcelId,
\* driverId, status: STARTED}) and 201.
createAfterReserve(w) ==
    /\ ctl[w].op = "createDelivery" /\ ctl[w].pc = "reserve"
    /\ eng[w].pc = "ret"
    /\ eng' = [eng EXCEPT ![w] = EngIdle]
    /\ IF eng[w].ret
       THEN /\ delivery' = [delivery EXCEPT ![freshDelivery] =
                  [parcelId |-> ctl[w].parcel, driverId |-> ctl[w].drv, status |-> STARTED]]
            /\ ctl' = [ctl EXCEPT ![w].pc = "done", ![w].result = "201",
                                  ![w].del = freshDelivery]
       ELSE /\ delivery' = delivery
            /\ ctl' = [ctl EXCEPT ![w].pc = "done", ![w].result = "409"]
    /\ UNCHANGED <<atomic, freed, parcel, recent, requests, dRowLock, released, driver, rowLock, locks, availCache, nearbyCache>>

\* PATCH /deliveries/:id/status {status}
updateDeliveryStatus(w, x, status) ==
    /\ idle(w)
    /\ accept
    /\ ctl' = [ctl EXCEPT ![w] = [CtlIdle EXCEPT !.op = "updateDeliveryStatus",
                                                 !.pc = "acquire", !.del = x, !.arg = status]]
    /\ UNCHANGED <<atomic, freed, parcel, recent, dlv, driver, rowLock, locks, availCache, nearbyCache, eng>>

\* acquireLock(lockKey, 5000); not acquired: 429 thrown outside the inner try.
updateAcquire(w) ==
    /\ ctl[w].op = "updateDeliveryStatus" /\ ctl[w].pc = "acquire"
    /\ IF acquireLock(deliveryKey(ctl[w].del))
       THEN /\ locks' = locksAfterAcquire(deliveryKey(ctl[w].del))
            /\ ctl' = [ctl EXCEPT ![w].pc = "find"]
       ELSE /\ locks' = locks
            /\ ctl' = [ctl EXCEPT ![w].pc = "catch", ![w].err = "429"]
    /\ UNCHANGED <<atomic, freed, parcel, recent, requests, dlv, driver, rowLock, availCache, nearbyCache, eng>>

\* Delivery.findByPk(id, {transaction, lock: UPDATE}); no row: 404;
\* validateStatusTransition; COMPLETED or CANCELLED: releaseDriver(driverId).
updateFind(w) ==
    /\ ctl[w].op = "updateDeliveryStatus" /\ ctl[w].pc = "find"
    /\ IF ~live(ctl[w].del)
       THEN /\ ctl' = [ctl EXCEPT ![w].pc = "finally", ![w].err = "404"]
            /\ UNCHANGED <<atomic, freed, parcel, recent, requests, dRowLock, eng>>
       ELSE /\ dRowLock[ctl[w].del] = NoTxn
            /\ dRowLock' = [dRowLock EXCEPT ![ctl[w].del] = ctlTxn(w)]
            /\ IF validateStatusTransition(delivery[ctl[w].del].status, ctl[w].arg)
               THEN /\ ctl' = [ctl EXCEPT ![w].pc = "release",
                                          ![w].read = delivery[ctl[w].del]]
                    /\ eng' = [eng EXCEPT ![w] =
                                  EngCall("release", delivery[ctl[w].del].driverId)]
               ELSE /\ ctl' = [ctl EXCEPT ![w].pc = "finally", ![w].err = "400",
                                          ![w].read = delivery[ctl[w].del]]
                    /\ eng' = eng
    /\ UNCHANGED <<atomic, freed, parcel, recent, requests, delivery, released, driver, rowLock, locks, availCache, nearbyCache>>

\* releaseDriver returned (its value is dropped); delivery.update(updates,
\* {transaction}); transaction.commit().
updateCommit(w) ==
    /\ ctl[w].op = "updateDeliveryStatus" /\ ctl[w].pc = "release"
    /\ eng[w].pc = "ret"
    /\ eng' = [eng EXCEPT ![w] = EngIdle]
    /\ released' = releasedAfter(ctl[w].del, eng[w].ret)
    /\ delivery' = [delivery EXCEPT ![ctl[w].del].status = ctl[w].arg]
    /\ dRowLock' = dRowLockFreed(ctlTxn(w))
    /\ ctl' = [ctl EXCEPT ![w].pc = "finally"]
    /\ UNCHANGED <<atomic, freed, parcel, recent, requests, driver, rowLock, locks, availCache, nearbyCache>>

\* finally: releaseLock(lockKey); then the response, or the outer catch.
updateFinally(w) ==
    /\ ctl[w].op = "updateDeliveryStatus" /\ ctl[w].pc = "finally"
    /\ locks' = releaseLock(deliveryKey(ctl[w].del))
    /\ ctl' = IF ctl[w].err = ""
              THEN [ctl EXCEPT ![w].pc = "done", ![w].result = "200"]
              ELSE [ctl EXCEPT ![w].pc = "catch"]
    /\ UNCHANGED <<atomic, freed, parcel, recent, requests, dlv, driver, rowLock, availCache, nearbyCache, eng>>

\* catch: transaction.rollback(); next(error)
updateCatch(w) ==
    /\ ctl[w].op = "updateDeliveryStatus" /\ ctl[w].pc = "catch"
    /\ dRowLock' = dRowLockFreed(ctlTxn(w))
    /\ ctl' = [ctl EXCEPT ![w].pc = "done", ![w].result = ctl[w].err]
    /\ UNCHANGED <<atomic, freed, parcel, recent, requests, delivery, released, driver, rowLock, locks, availCache, nearbyCache, eng>>

\* DELETE /deliveries/:id
deleteDelivery(w, x) ==
    /\ idle(w)
    /\ accept
    /\ ctl' = [ctl EXCEPT ![w] = [CtlIdle EXCEPT !.op = "deleteDelivery",
                                                 !.pc = "acquire", !.del = x]]
    /\ UNCHANGED <<atomic, freed, parcel, recent, dlv, driver, rowLock, locks, availCache, nearbyCache, eng>>

deleteAcquire(w) ==
    /\ ctl[w].op = "deleteDelivery" /\ ctl[w].pc = "acquire"
    /\ IF acquireLock(deliveryKey(ctl[w].del))
       THEN /\ locks' = locksAfterAcquire(deliveryKey(ctl[w].del))
            /\ ctl' = [ctl EXCEPT ![w].pc = "find"]
       ELSE /\ locks' = locks
            /\ ctl' = [ctl EXCEPT ![w].pc = "done", ![w].result = "429"]
    /\ UNCHANGED <<atomic, freed, parcel, recent, requests, dlv, driver, rowLock, availCache, nearbyCache, eng>>

\* Delivery.findByPk(id, {transaction}) (no row lock); no row: 404; status
\* STARTED: releaseDriver(driverId).
deleteFind(w) ==
    /\ ctl[w].op = "deleteDelivery" /\ ctl[w].pc = "find"
    /\ IF ~live(ctl[w].del)
       THEN /\ ctl' = [ctl EXCEPT ![w].pc = "finally", ![w].err = "404"]
            /\ eng' = eng
       ELSE IF delivery[ctl[w].del].status = STARTED
       THEN /\ ctl' = [ctl EXCEPT ![w].pc = "release", ![w].read = delivery[ctl[w].del]]
            /\ eng' = [eng EXCEPT ![w] = EngCall("release", delivery[ctl[w].del].driverId)]
       ELSE /\ ctl' = [ctl EXCEPT ![w].pc = "destroy", ![w].read = delivery[ctl[w].del]]
            /\ eng' = eng
    /\ UNCHANGED <<atomic, freed, parcel, recent, requests, dlv, driver, rowLock, locks, availCache, nearbyCache>>

\* releaseDriver returned (its value is dropped).
deleteAfterRelease(w) ==
    /\ ctl[w].op = "deleteDelivery" /\ ctl[w].pc = "release"
    /\ eng[w].pc = "ret"
    /\ eng' = [eng EXCEPT ![w] = EngIdle]
    /\ released' = releasedAfter(ctl[w].del, eng[w].ret)
    /\ ctl' = [ctl EXCEPT ![w].pc = "destroy"]
    /\ UNCHANGED <<atomic, freed, parcel, recent, requests, delivery, dRowLock, driver, rowLock, locks, availCache, nearbyCache>>

\* delivery.destroy({transaction}); transaction.commit().  The DELETE waits
\* for the row's holder.
deleteDestroy(w) ==
    /\ ctl[w].op = "deleteDelivery" /\ ctl[w].pc = "destroy"
    /\ dRowLock[ctl[w].del] = NoTxn
    /\ delivery' = [delivery EXCEPT ![ctl[w].del] = Deleted]
    /\ ctl' = [ctl EXCEPT ![w].pc = "finally"]
    /\ UNCHANGED <<atomic, freed, parcel, recent, requests, dRowLock, released, driver, rowLock, locks, availCache, nearbyCache, eng>>

\* finally: releaseLock(lockKey); the response (a rollback of the 404 path has
\* nothing to undo).
deleteFinally(w) ==
    /\ ctl[w].op = "deleteDelivery" /\ ctl[w].pc = "finally"
    /\ locks' = releaseLock(deliveryKey(ctl[w].del))
    /\ ctl' = [ctl EXCEPT ![w].pc = "done",
                          ![w].result = IF ctl[w].err = "" THEN "200" ELSE ctl[w].err]
    /\ UNCHANGED <<atomic, freed, parcel, recent, requests, dlv, driver, rowLock, availCache, nearbyCache, eng>>

\* ------------------------------------------------------ delivery routes
\* POST /deliveries/webhook/status {deliveryId, status}
webhookStatus(w, x, status) ==
    /\ idle(w)
    /\ accept
    /\ ctl' = [ctl EXCEPT ![w] = [CtlIdle EXCEPT !.op = "webhookStatus",
                                                 !.pc = "acquire", !.del = x, !.arg = status]]
    /\ UNCHANGED <<atomic, freed, parcel, recent, dlv, driver, rowLock, locks, availCache, nearbyCache, eng>>

\* acquireLock(lockKey, 5000); not acquired: 202 "Update queued".
webhookAcquire(w) ==
    /\ ctl[w].op = "webhookStatus" /\ ctl[w].pc = "acquire"
    /\ IF acquireLock(deliveryKey(ctl[w].del))
       THEN /\ locks' = locksAfterAcquire(deliveryKey(ctl[w].del))
            /\ ctl' = [ctl EXCEPT ![w].pc = "find"]
       ELSE /\ locks' = locks
            /\ ctl' = [ctl EXCEPT ![w].pc = "done", ![w].result = "202"]
    /\ UNCHANGED <<atomic, freed, parcel, recent, requests, dlv, driver, rowLock, availCache, nearbyCache, eng>>

\* Delivery.findByPk(deliveryId); no row: 404.
webhookFind(w) ==
    /\ ctl[w].op = "webhookStatus" /\ ctl[w].pc = "find"
    /\ ctl' = IF live(ctl[w].del)
              THEN [ctl EXCEPT ![w].pc = "update", ![w].read = delivery[ctl[w].del]]
              ELSE [ctl EXCEPT ![w].pc = "finally", ![w].err = "404"]
    /\ UNCHANGED <<atomic, freed, parcel, recent, requests, dlv, driver, rowLock, locks, availCache, nearbyCache, eng>>

\* delivery.update({status}): the UPDATE waits for the row's holder and
\* writes the status of the request; a row destroyed meanwhile is not written.
webhookUpdate(w) ==
    /\ ctl[w].op = "webhookStatus" /\ ctl[w].pc = "update"
    /\ dRowLock[ctl[w].del] = NoTxn
    /\ delivery' = IF live(ctl[w].del)
                   THEN [delivery EXCEPT ![ctl[w].del].status = ctl[w].arg]
                   ELSE delivery
    /\ ctl' = [ctl EXCEPT ![w].pc = "finally"]
    /\ UNCHANGED <<atomic, freed, parcel, recent, requests, dRowLock, released, driver, rowLock, locks, availCache, nearbyCache, eng>>

\* finally: releaseLock(lockKey)
webhookFinally(w) ==
    /\ ctl[w].op = "webhookStatus" /\ ctl[w].pc = "finally"
    /\ locks' = releaseLock(deliveryKey(ctl[w].del))
    /\ ctl' = [ctl EXCEPT ![w].pc = "done",
                          ![w].result = IF ctl[w].err = "" THEN "200" ELSE ctl[w].err]
    /\ UNCHANGED <<atomic, freed, parcel, recent, requests, dlv, driver, rowLock, availCache, nearbyCache, eng>>

\* One step of the delivery request worker w is serving.
deliveryStep(w) ==
    \/ createFindOne(w)
    \/ createAfterReserve(w)
    \/ updateAcquire(w)
    \/ updateFind(w)
    \/ updateCommit(w)
    \/ updateFinally(w)
    \/ updateCatch(w)
    \/ deleteAcquire(w)
    \/ deleteFind(w)
    \/ deleteAfterRelease(w)
    \/ deleteDestroy(w)
    \/ deleteFinally(w)
    \/ respond(w)

webhookStep(w) ==
    \/ webhookAcquire(w)
    \/ webhookFind(w)
    \/ webhookUpdate(w)
    \/ webhookFinally(w)

\* --------------------------------------------------- DriverController
\* updateDriverStatus's table of valid transitions.
validTransitions(status) ==
    CASE status = AVAILABLE -> {BUSY, OFFLINE}
      [] status = BUSY -> {AVAILABLE, OFFLINE}
      [] status = OFFLINE -> {AVAILABLE}

\* PATCH /drivers/:id/status: in one transaction, the row read for update,
\* the transition validated, the status written and committed; then the
\* caches driver:<id>, drivers:list:* and drivers:nearby:* deleted.  The
\* request waits for the row's holder; a refused transition changes nothing.
updateDriverStatus(d, newStatus) ==
    /\ findForUpdate(<<"request", "updateDriverStatus">>, d)
    /\ newStatus \in validTransitions(driver[d].status)
    /\ driver' = [driver EXCEPT ![d].status = newStatus]
    /\ recent' = touch(d)
    /\ nearbyCache' = NoEntry
    /\ UNCHANGED <<atomic, freed, parcel, requests, dlv, rowLock, locks, availCache, eng, ctl>>

\* ----------------------------------------------------- Smart Dispatching
NEARBY_RADIUS == 5000

\* The limit assignOptimalDriver passes to findAvailableDriversNearby.
nearbyLimit == 5

\* calculateDriverScore's maxDistance.
maxDistance == 10000

\* What the requests do not change of a driver: its location, as the
\* distance in metres calculateDistance gives from the pickup location of
\* the requests, its rating in tenths (0: none) and its experienceLevel.
profile ==
    [d \in Drivers |->
        CASE d = "d1" -> [distance |-> 1000, rating |-> 0, experienceLevel |-> "junior"]
          [] d = "d2" -> [distance |-> 2400, rating |-> 50, experienceLevel |-> "junior"]
          [] d = "d3" -> [distance |-> 4000, rating |-> 0, experienceLevel |-> "senior"]
          [] d = "d4" -> [distance |-> 6000, rating |-> 0, experienceLevel |-> "junior"]]

\* Array.prototype.sort with a comparator that subtracts keys, which is
\* stable: s by ascending key, elements of equal keys kept in the order they
\* have in s.
sort(s, key) ==
    LET n == Len(s)
        rank(i) == Cardinality({j \in 1..n : \/ key[j] < key[i]
                                             \/ key[j] = key[i] /\ j < i}) + 1
    IN  [k \in 1..n |-> s[CHOOSE i \in 1..n : rank(i) = k]]

\* Driver.findAll({where, limit, order}): the AVAILABLE rows with currentLoad <
\* maxCapacity, by currentLoad ascending then updatedAt descending, the first
\* limit of them.
findAll(limit) ==
    LET found == {d \in Drivers : /\ driver[d].status = AVAILABLE
                                  /\ driver[d].currentLoad < driver[d].maxCapacity}
        pos(d) == CHOOSE i \in 1..Len(recent) : recent[i] = d
        first(a, b) == \/ driver[a].currentLoad < driver[b].currentLoad
                       \/ /\ driver[a].currentLoad = driver[b].currentLoad
                          /\ pos(a) < pos(b)
        rank(d) == Cardinality({e \in found : first(e, d)}) + 1
        rows == [k \in 1..Cardinality(found) |-> CHOOSE d \in found : rank(d) = k]
    IN  SubSeq(rows, 1, IF Len(rows) < limit THEN Len(rows) ELSE limit)

\* A NearbyDriver: the row as read and its distance.
nearbyDriver(d) ==
    [id |-> d, currentLoad |-> driver[d].currentLoad,
     maxCapacity |-> driver[d].maxCapacity, distance |-> profile[d].distance]

\* (a, b) => a.distance - b.distance
byDistance(s) == [i \in 1..Len(s) |-> s[i].distance]

\* findAvailableDriversNearby past the cache: the rows found, those within
\* the radius, the nearest first.
nearbyDrivers(radius, limit) ==
    LET rows == findAll(limit)
        mapped == [k \in 1..Len(rows) |-> nearbyDriver(rows[k])]
        within == SelectSeq(mapped, LAMBDA n : n.distance <= radius)
    IN  sort(within, byDistance(within))

\* calculateDriverScore, in hundredths:
\*   100 * (100 - distance / maxDistance * 50) / 100
\*       * (100 - currentLoad / maxCapacity * 40) / 100
\*       * (80 + rating * 5) / 100 [* 1.2], rounded to two decimals.
\* The product is the fraction num / den below and Math.round takes it to
\* the nearest integer, halves upwards.
calculateDriverScore(n, priority) ==
    LET rating == IF profile[n.id].rating = 0 THEN 40 ELSE profile[n.id].rating
        bonus == priority = 1 /\ profile[n.id].experienceLevel = "senior"
        num == (2 * maxDistance - n.distance) * (5 * n.maxCapacity - 2 * n.currentLoad)
                 * (160 + rating) * (IF bonus THEN 6 ELSE 1)
        den == ((2 * maxDistance) \div 10) * n.maxCapacity * (IF bonus THEN 5 ELSE 1)
    IN  (2 * num + den) \div (2 * den)

\* .sort((a, b) => b.score - a.score)
byScore(s) == [i \in 1..Len(s) |-> 0 - s[i].score]

scoredDrivers(nearby, priority) ==
    LET scored == [k \in 1..Len(nearby) |->
                     [id |-> nearby[k].id, currentLoad |-> nearby[k].currentLoad,
                      maxCapacity |-> nearby[k].maxCapacity,
                      distance |-> nearby[k].distance,
                      score |-> calculateDriverScore(nearby[k], priority)]]
    IN  sort(scored, byScore(scored))

\* The drivers:nearby:* key reaches its TTL.
NearbyExpire ==
    /\ nearbyCache # NoEntry
    /\ nearbyCache' = NoEntry
    /\ UNCHANGED <<atomic, freed, parcel, recent, requests, dlv, driver, rowLock, locks, availCache, eng, ctl>>

\* driverService.assignOptimalDriver(pickupLocation, {priority})
assignOptimalDriver(w, priority) ==
    /\ idle(w)
    /\ accept
    /\ ctl' = [ctl EXCEPT ![w] = [CtlIdle EXCEPT !.op = "assignOptimalDriver",
                                                 !.pc = "cacheGet", !.priority = priority]]
    /\ UNCHANGED <<atomic, freed, parcel, recent, dlv, driver, rowLock, locks, availCache, nearbyCache, eng>>

\* findAvailableDriversNearby: redisService.get(cacheKey); a cached list is
\* returned as it is.
nearbyGet(w) ==
    /\ ctl[w].pc = "cacheGet"
    /\ ctl' = [ctl EXCEPT ![w] =
                 IF nearbyCache # NoEntry
                 THEN [@ EXCEPT !.cands = nearbyCache.list, !.pc = "score"]
                 ELSE [@ EXCEPT !.pc = "findAll"]]
    /\ UNCHANGED <<atomic, freed, parcel, recent, requests, dlv, driver, rowLock, locks, availCache, nearbyCache, eng>>

\* findAvailableDriversNearby: Driver.findAll and the distances.
nearbyFindAll(w) ==
    /\ ctl[w].pc = "findAll"
    /\ ctl' = [ctl EXCEPT ![w].cands = nearbyDrivers(NEARBY_RADIUS, nearbyLimit),
                          ![w].pc = "cacheSet"]
    /\ UNCHANGED <<atomic, freed, parcel, recent, requests, dlv, driver, rowLock, locks, availCache, nearbyCache, eng>>

\* findAvailableDriversNearby: redisService.setWithExpiry(cacheKey, nearbyDrivers)
nearbySet(w) ==
    /\ ctl[w].pc = "cacheSet"
    /\ nearbyCache' = [list |-> ctl[w].cands]
    /\ ctl' = [ctl EXCEPT ![w].pc = "score"]
    /\ UNCHANGED <<atomic, freed, parcel, recent, requests, dlv, driver, rowLock, locks, availCache, eng>>

\* Where assignOptimalDriver returns to: the request's response, or its
\* caller emergencyDriverReplacement.
returnTo(w) == IF ctl[w].op = "assignOptimalDriver" THEN "done" ELSE "returned"

\* No driver nearby: null; else the candidates scored and sorted.
scoreDrivers(w) ==
    /\ ctl[w].pc = "score"
    /\ ctl' = [ctl EXCEPT ![w] =
                 IF Len(ctl[w].cands) = 0
                 THEN [@ EXCEPT !.result = NoOne, !.pc = returnTo(w)]
                 ELSE [@ EXCEPT !.cands = scoredDrivers(ctl[w].cands, ctl[w].priority),
                                !.pc = "loop"]]
    /\ UNCHANGED <<atomic, freed, parcel, recent, requests, dlv, driver, rowLock, locks, availCache, nearbyCache, eng>>

\* for (const driverInfo of scoredDrivers): reserveDriver(driverInfo.driver.id),
\* or null past the last candidate.
tryReserve(w) ==
    /\ ctl[w].pc = "loop"
    /\ IF Len(ctl[w].tried) < Len(ctl[w].cands)
       THEN /\ eng' = [eng EXCEPT ![w] =
                         EngCall("reserve", ctl[w].cands[Len(ctl[w].tried) + 1].id)]
            /\ ctl' = [ctl EXCEPT ![w].pc = "reserving"]
       ELSE /\ ctl' = [ctl EXCEPT ![w].result = NoOne, ![w].pc = returnTo(w)]
            /\ UNCHANGED eng
    /\ UNCHANGED <<atomic, freed, parcel, recent, requests, dlv, driver, rowLock, locks, availCache, nearbyCache>>

\* The loop with its test of the value reserveDriver returned left out.
assignedAlways(reserved) == TRUE

\* The loop going on to the next candidate whatever reserveDriver returned.
assignedNever(reserved) == FALSE

\* if (reserved) return driverInfo.driver.id
assigned(reserved) == reserved

\* The drivers whose row the call's reserveDriver calls have written, the one
\* that has just returned included.
loadedAfter(w) ==
    IF eng[w].wrote THEN Append(ctl[w].loaded, eng[w].drv) ELSE ctl[w].loaded

\* The drivers whose row the request's releaseDriver calls have written, the
\* one that has just returned included.
unloadedAfter(w) ==
    IF eng[w].wrote THEN Append(ctl[w].unloaded, eng[w].drv) ELSE ctl[w].unloaded

\* What the loop's catch has logged so far: the error reserveDriver threw
\* (NotFound, or one of the database), or what it had before.
caught(e, err) ==
    IF ~e.thrown THEN err
    ELSE IF e.err = "notFound" THEN "notFound" ELSE "thrown"

\* reserveDriver has returned or thrown: the candidate's id is returned, or
\* the loop goes on to the next candidate (catch: continue).
afterReserve(w) ==
    /\ ctl[w].pc = "reserving"
    /\ eng[w].pc = "ret"
    /\ ctl' = [ctl EXCEPT ![w] =
                 IF assigned(eng[w].ret)
                 THEN [@ EXCEPT !.tried = Append(@, eng[w].ret), !.loaded = loadedAfter(w),
                                !.result = eng[w].drv, !.pc = returnTo(w)]
                 ELSE [@ EXCEPT !.tried = Append(@, eng[w].ret), !.loaded = loadedAfter(w),
                                !.err = caught(eng[w], @), !.pc = "loop"]]
    /\ eng' = [eng EXCEPT ![w] = EngIdle]
    /\ UNCHANGED <<atomic, freed, parcel, recent, requests, dlv, driver, rowLock, locks, availCache, nearbyCache>>

dispatchStep(w) ==
    \/ nearbyGet(w)
    \/ nearbyFindAll(w)
    \/ nearbySet(w)
    \/ scoreDrivers(w)
    \/ tryReserve(w)
    \/ afterReserve(w)

\* ------------------------------------------------ emergency replacement
\* The drivers other than d that findAvailableDriversNearby would find.
eligibleOthers(d) ==
    {e \in Drivers \ {d} : /\ driver[e].status = AVAILABLE
                           /\ driver[e].currentLoad < driver[e].maxCapacity
                           /\ profile[e].distance <= NEARBY_RADIUS}

\* driverService.emergencyDriverReplacement(oldDriverId, deliveryId, reason),
\* for a delivery of the driver: releaseDriver(oldDriverId) first.  The call
\* notes the one other driver that could be found, if there is exactly one.
emergencyDriverReplacement(w, d, x) ==
    /\ idle(w)
    /\ accept
    /\ live(x) /\ delivery[x].driverId = d
    /\ ctl' = [ctl EXCEPT ![w] =
                 [CtlIdle EXCEPT !.op = "emergencyDriverReplacement", !.pc = "release",
                                 !.del = x, !.drv = d, !.prev = d,
                                 !.arg = IF Cardinality(eligibleOthers(d)) = 1
                                         THEN CHOOSE e \in eligibleOthers(d) : TRUE
                                         ELSE NoOne]]
    /\ eng' = [eng EXCEPT ![w] = EngCall("release", d)]
    /\ UNCHANGED <<atomic, freed, parcel, recent, dlv, driver, rowLock, locks, availCache, nearbyCache>>

\* releaseDriver returned (its value is dropped); Delivery.findByPk(deliveryId):
\* no row: 404 thrown; else assignOptimalDriver(currentLocation, {priority: 1}).
emergencyFind(w) ==
    /\ ctl[w].op = "emergencyDriverReplacement" /\ ctl[w].pc = "release"
    /\ eng[w].pc = "ret"
    /\ eng' = [eng EXCEPT ![w] = EngIdle]
    /\ ctl' = [ctl EXCEPT ![w] =
                 IF ~live(ctl[w].del)
                 THEN [@ EXCEPT !.unloaded = unloadedAfter(w), !.pc = "done",
                                !.err = "notFound", !.result = "notFound"]
                 ELSE [@ EXCEPT !.unloaded = unloadedAfter(w), !.pc = "cacheGet",
                                !.read = delivery[ctl[w].del], !.priority = 1]]
    /\ UNCHANGED <<atomic, freed, parcel, recent, requests, dlv, driver, rowLock, locks, availCache, nearbyCache>>

\* assignOptimalDriver returned: an id: delivery.update({driverId: newDriverId}),
\* which waits for the row's holder; the id or null is returned.
emergencyUpdate(w) ==
    /\ ctl[w].op = "emergencyDriverReplacement" /\ ctl[w].pc = "returned"
    /\ IF ctl[w].result # NoOne /\ live(ctl[w].del)
       THEN /\ dRowLock[ctl[w].del] = NoTxn
            /\ delivery' = [delivery EXCEPT ![ctl[w].del].driverId = ctl[w].result]
       ELSE delivery' = delivery
    /\ ctl' = [ctl EXCEPT ![w].pc = "done"]
    /\ UNCHANGED <<atomic, freed, parcel, recent, requests, dRowLock, released, driver, rowLock, locks, availCache,
                   nearbyCache, eng>>

emergencyStep(w) ==
    \/ emergencyFind(w)
    \/ emergencyUpdate(w)

\* ------------------------------------- DriverController: manual override
\* The status assignDeliveryToDriver writes; DeliveryStatus does not have it.
ASSIGNED == "assigned"

\* The test of the request's force flag left out of the conflict check.
alreadyAssignedForced(instance, id, force) == FALSE

\* if (delivery.driverId && delivery.driverId !== id && !force): conflict
alreadyAssigned(instance, id, force) ==
    instance.driverId # NoOne /\ instance.driverId # id /\ ~force

\* The request going on whatever reserveDriver returned.
driverUnavailableNever(reserved) == FALSE

\* if (!reserved) throw AppError.driverUnavailable(id)
driverUnavailable(reserved) == ~reserved

\* if (delivery.driverId && delivery.driverId !== id): releaseDriver, on the
\* instance as delivery.update has left it.
releasesPrevious(instance, id) == instance.driverId # NoOne /\ instance.driverId # id

\* POST /drivers/:id/assign {deliveryId, force}
assignDeliveryToDriver(w, x, d, force) ==
    /\ idle(w)
    /\ accept
    /\ ctl' = [ctl EXCEPT ![w] = [CtlIdle EXCEPT !.op = "assignDeliveryToDriver",
                                                 !.pc = "find", !.del = x, !.drv = d,
                                                 !.force = force]]
    /\ UNCHANGED <<atomic, freed, parcel, recent, dlv, driver, rowLock, locks, availCache, nearbyCache, eng>>

\* Delivery.findByPk(deliveryId, {transaction, lock: UPDATE}), which waits for
\* the row's holder; no row: notFound; already assigned: conflict; else
\* reserveDriver(id).
assignFind(w) ==
    /\ ctl[w].op = "assignDeliveryToDriver" /\ ctl[w].pc = "find"
    /\ LET x == ctl[w].del IN
       IF ~live(x)
       THEN /\ ctl' = [ctl EXCEPT ![w].pc = "catch", ![w].err = "notFound"]
            /\ UNCHANGED <<dRowLock, eng>>
       ELSE /\ dRowLock[x] = NoTxn
            /\ dRowLock' = [dRowLock EXCEPT ![x] = ctlTxn(w)]
            /\ IF alreadyAssigned(delivery[x], ctl[w].drv, ctl[w].force)
               THEN /\ ctl' = [ctl EXCEPT ![w].pc = "catch", ![w].err = "conflict",
                                     ![w].read = delivery[x],
                                     ![w].prev = delivery[x].driverId]
                    /\ eng' = eng
               ELSE /\ ctl' = [ctl EXCEPT ![w].pc = "reserve", ![w].read = delivery[x],
                                     ![w].prev = delivery[x].driverId]
                    /\ eng' = [eng EXCEPT ![w] = EngCall("reserve", ctl[w].drv)]
    /\ UNCHANGED <<atomic, freed, parcel, recent, requests, delivery, released, driver, rowLock, locks, availCache,
                   nearbyCache>>

\* reserveDriver returned: false: driverUnavailable thrown.
assignAfterReserve(w) ==
    /\ ctl[w].op = "assignDeliveryToDriver" /\ ctl[w].pc = "reserve"
    /\ eng[w].pc = "ret"
    /\ eng' = [eng EXCEPT ![w] = EngIdle]
    /\ ctl' = [ctl EXCEPT ![w] =
                 IF driverUnavailable(eng[w].ret)
                 THEN [@ EXCEPT !.tried = Append(@, eng[w].ret), !.loaded = loadedAfter(w),
                                !.pc = "catch", !.err = "driverUnavailable"]
                 ELSE [@ EXCEPT !.tried = Append(@, eng[w].ret), !.loaded = loadedAfter(w),
                                !.pc = "update"]]
    /\ UNCHANGED <<atomic, freed, parcel, recent, requests, dlv, driver, rowLock, locks, availCache, nearbyCache>>

\* delivery.update({driverId: id, status: 'assigned'}, {transaction}).  The
\* statement is written where the status column admits 'assigned' and is
\* refused where the column is the ENUM the model declares (sequelize.sync);
\* refused, the inner catch calls releaseDriver(id).
assignUpdate(w) ==
    /\ ctl[w].op = "assignDeliveryToDriver" /\ ctl[w].pc = "update"
    /\ \/ /\ ctl' = [ctl EXCEPT ![w].pc = "commit",
                                ![w].read = [@ EXCEPT !.driverId = ctl[w].drv,
                                                      !.status = ASSIGNED]]
          /\ eng' = eng
       \/ /\ ctl' = [ctl EXCEPT ![w].pc = "compensate", ![w].err = "update"]
          /\ eng' = [eng EXCEPT ![w] = EngCall("release", ctl[w].drv)]
    /\ UNCHANGED <<atomic, freed, parcel, recent, requests, dlv, driver, rowLock, locks, availCache, nearbyCache>>

\* if (delivery.driverId && delivery.driverId !== id) releaseDriver(delivery.driverId),
\* its value dropped; transaction.commit().
assignCommit(w) ==
    /\ ctl[w].op = "assignDeliveryToDriver"
    /\ \/ /\ ctl[w].pc = "commit"
          /\ releasesPrevious(ctl[w].read, ctl[w].drv)
          /\ eng' = [eng EXCEPT ![w] = EngCall("release", ctl[w].read.driverId)]
          /\ ctl' = [ctl EXCEPT ![w].pc = "release"]
          /\ UNCHANGED <<delivery, dRowLock>>
       \/ /\ ctl[w].pc = "commit"
          /\ ~releasesPrevious(ctl[w].read, ctl[w].drv)
          /\ delivery' = [delivery EXCEPT ![ctl[w].del] = ctl[w].read]
          /\ dRowLock' = dRowLockFreed(ctlTxn(w))
          /\ ctl' = [ctl EXCEPT ![w].pc = "invalidate"]
          /\ eng' = eng
       \/ /\ ctl[w].pc = "release"
          /\ eng[w].pc = "ret"
          /\ delivery' = [delivery EXCEPT ![ctl[w].del] = ctl[w].read]
          /\ dRowLock' = dRowLockFreed(ctlTxn(w))
          /\ ctl' = [ctl EXCEPT ![w].pc = "invalidate", ![w].unloaded = unloadedAfter(w)]
          /\ eng' = [eng EXCEPT ![w] = EngIdle]
    /\ UNCHANGED <<atomic, freed, parcel, recent, requests, released, driver, rowLock, locks, availCache, nearbyCache>>

\* del(delivery:<id>), del(driver:<id>), delPattern(drivers:list:*),
\* delPattern(drivers:nearby:*); 200.
assignInvalidate(w) ==
    /\ ctl[w].op = "assignDeliveryToDriver" /\ ctl[w].pc = "invalidate"
    /\ nearbyCache' = NoEntry
    /\ ctl' = [ctl EXCEPT ![w].pc = "done", ![w].result = "200"]
    /\ UNCHANGED <<atomic, freed, parcel, recent, requests, dlv, driver, rowLock, locks, availCache, eng>>

\* The inner catch's releaseDriver(id) returned (its value is dropped); the
\* error is thrown on.
assignCompensated(w) ==
    /\ ctl[w].op = "assignDeliveryToDriver" /\ ctl[w].pc = "compensate"
    /\ eng[w].pc = "ret"
    /\ eng' = [eng EXCEPT ![w] = EngIdle]
    /\ ctl' = [ctl EXCEPT ![w].pc = "catch", ![w].unloaded = unloadedAfter(w)]
    /\ UNCHANGED <<atomic, freed, parcel, recent, requests, dlv, driver, rowLock, locks, availCache, nearbyCache>>

\* catch: transaction.rollback(); next(error)
assignCatch(w) ==
    /\ ctl[w].op = "assignDeliveryToDriver" /\ ctl[w].pc = "catch"
    /\ dRowLock' = dRowLockFreed(ctlTxn(w))
    /\ ctl' = [ctl EXCEPT ![w].pc = "done", ![w].result = ctl[w].err]
    /\ UNCHANGED <<atomic, freed, parcel, recent, requests, delivery, released, driver, rowLock, locks, availCache,
                   nearbyCache, eng>>

assignStep(w) ==
    \/ assignFind(w)
    \/ assignAfterReserve(w)
    \/ assignUpdate(w)
    \/ assignCommit(w)
    \/ assignInvalidate(w)
    \/ assignCompensated(w)
    \/ assignCatch(w)

\* ---------------------------------------------------------- nearby search
\* The most drivers a nearby search is asked for.
MaxLimit == 3

\* The radii the nearby searches name: all but d4 within, d1 and d2 within.
Radii == {NEARBY_RADIUS, 3000}

\* driverService.findAvailableDriversNearby(location, radius, limit), at the
\* pickup location the distances of profile are taken from.
findAvailableDriversNearby(w, radius, limit) ==
    /\ idle(w)
    /\ ctl' = [ctl EXCEPT ![w] = [CtlIdle EXCEPT !.op = "findAvailableDriversNearby",
                                                 !.pc = "nearbyMiss",
                                                 !.arg = [radius |-> radius, limit |-> limit]]]
    /\ UNCHANGED <<atomic, freed, parcel, recent, requests, dlv, driver, rowLock, locks, availCache,
                   nearbyCache, eng>>

\* redisService.get(cacheKey) finds no entry under the call's own key
\* drivers:nearby:<lat>:<lng>:<radius>:<limit>; Driver.findAll, the
\* distances, the filter and the sort; the list cached under that key and
\* returned.
nearbyMiss(w) ==
    /\ ctl[w].op = "findAvailableDriversNearby" /\ ctl[w].pc = "nearbyMiss"
    /\ ctl' = [ctl EXCEPT ![w].cands = nearbyDrivers(ctl[w].arg.radius, ctl[w].arg.limit),
                          ![w].pc = "done", ![w].result = "list"]
    /\ UNCHANGED <<atomic, freed, parcel, recent, requests, dlv, driver, rowLock, locks, availCache,
                   nearbyCache, eng>>

\* ------------------------------------------------------ ParcelController
\* The statuses a request body may name.
RequestStatus == {PENDING, ASSIGNED, IN_TRANSIT, PICKED, DELIVERED, CANCELLED,
                  RETURNED, LOST}

\* updateParcelStatus's validTransitions[parcel.status]; a status that is no
\* key of the table has no entry (undefined).
parcelTransitions(status) ==
    CASE status = PENDING -> {IN_TRANSIT, CANCELLED}
      [] status = IN_TRANSIT -> {DELIVERED, RETURNED, LOST}
      [] OTHER -> {}

\* updateParcelStatus's "map to ParcelStatus enum".
parcelStatus(status) ==
    CASE status = PENDING -> PENDING
      [] status \in {ASSIGNED, IN_TRANSIT} -> ASSIGNED
      [] status = PICKED -> PICKED
      [] status = DELIVERED -> DELIVERED
      [] OTHER -> PENDING

\* include: [{model: Delivery, as: 'delivery'}]: the parcel's deliveries.
deliveryOf(p) == {x \in Deliveries : live(x) /\ delivery[x].parcelId = p}

\* The deliveries table once the request's staged delivery update commits.
deliveryAfter(w) ==
    [x \in Deliveries |->
        IF ctl[w].del = x /\ live(x)
        THEN [delivery[x] EXCEPT
                !.status = ctl[w].arg,
                !.driverId = IF ctl[w].op = "assignParcel" THEN ctl[w].drv ELSE @]
        ELSE delivery[x]]

\* checkDriverAvailability: the cached entry when there is one, else the
\* answer computed from the row read without a lock.
checkDriverAvailability(cached, row) ==
    IF cached # NoEntry THEN cached
    ELSE [available |-> row.status = AVAILABLE /\ row.currentLoad < row.maxCapacity,
          capacity |-> row.maxCapacity,
          currentLoad |-> row.currentLoad]

\* The count of the request's parcel once its releaseDriver call has
\* returned: one more when the call wrote the driver's row.
freedAfter(w) ==
    [freed EXCEPT ![ctl[w].parcel] = IF eng[w].wrote THEN @ + 1 ELSE @]

\* PATCH /parcels/:id/status {status}
updateParcelStatus(w, p, status) ==
    /\ idle(w)
    /\ accept
    /\ ctl' = [ctl EXCEPT ![w] = [CtlIdle EXCEPT !.op = "updateParcelStatus", !.pc = "find",
                                                 !.parcel = p, !.arg = status]]
    /\ UNCHANGED <<atomic, freed, parcel, recent, dlv, driver, rowLock, locks, availCache, nearbyCache, eng>>

\* Parcel.findByPk FOR UPDATE with its delivery; the transition validated
\* against the table; parcel.update({status: parcelStatus}) and
\* parcel.delivery.update({status}) staged in the transaction.  The delivery
\* statement is refused where the delivery status column does not admit the
\* status.  Then releaseDriver(parcel.driverId) for delivered / cancelled.
parcelFind(w) ==
    /\ ctl[w].op = "updateParcelStatus" /\ ctl[w].pc = "find"
    /\ LET p == ctl[w].parcel
           status == ctl[w].arg
           staged == [parcel[p] EXCEPT !.status = parcelStatus(status)]
       IN  IF status \notin parcelTransitions(parcel[p].status)
           THEN /\ ctl' = [ctl EXCEPT ![w].pc = "catch", ![w].err = "validation"]
                /\ eng' = eng
           ELSE \/ /\ deliveryOf(p) # {} /\ status \notin DeliveryStatus
                   /\ ctl' = [ctl EXCEPT ![w].pc = "catch", ![w].err = "update"]
                   /\ eng' = eng
                \/ /\ status \in {DELIVERED, CANCELLED} /\ parcel[p].driverId # NoOne
                   /\ ctl' = [ctl EXCEPT ![w].pc = "release", ![w].read = staged,
                                         ![w].del = IF deliveryOf(p) = {} THEN 0
                                                    ELSE CHOOSE x \in deliveryOf(p) : TRUE]
                   /\ eng' = [eng EXCEPT ![w] = EngCall("release", parcel[p].driverId)]
                \/ /\ ~(status \in {DELIVERED, CANCELLED} /\ parcel[p].driverId # NoOne)
                   /\ ctl' = [ctl EXCEPT ![w].pc = "commit", ![w].read = staged,
                                         ![w].del = IF deliveryOf(p) = {} THEN 0
                                                    ELSE CHOOSE x \in deliveryOf(p) : TRUE]
                   /\ eng' = eng
    /\ UNCHANGED <<atomic, freed, parcel, recent, requests, dlv, driver, rowLock, locks, availCache, nearbyCache>>

\* releaseDriver returned (its value is dropped); createStatusHistory;
\* transaction.commit(); 200.
parcelCommit(w) ==
    /\ ctl[w].op = "updateParcelStatus"
    /\ \/ /\ ctl[w].pc = "commit"
          /\ eng' = eng
          /\ ctl' = [ctl EXCEPT ![w].pc = "done", ![w].result = "200"]
       \/ /\ ctl[w].pc = "release"
          /\ eng[w].pc = "ret"
          /\ eng' = [eng EXCEPT ![w] = EngIdle]
          /\ ctl' = [ctl EXCEPT ![w].pc = "done", ![w].result = "200",
                                ![w].unloaded = unloadedAfter(w)]
    /\ parcel' = [parcel EXCEPT ![ctl[w].parcel] = ctl[w].read]
    /\ delivery' = deliveryAfter(w)
    /\ freed' = IF ctl[w].pc = "release" THEN freedAfter(w) ELSE freed
    /\ UNCHANGED <<atomic, recent, requests, dRowLock, released, driver, rowLock, locks, availCache,
                   nearbyCache>>

\* catch: transaction.rollback(); next(error), for both parcel handlers.
parcelCatch(w) ==
    /\ ctl[w].op \in {"updateParcelStatus", "assignParcel"} /\ ctl[w].pc = "catch"
    /\ ctl' = [ctl EXCEPT ![w].pc = "done", ![w].result = ctl[w].err]
    /\ UNCHANGED <<atomic, freed, parcel, recent, requests, dlv, driver, rowLock, locks, availCache,
                   nearbyCache, eng>>

\* POST /parcels/:id/assign {driverId}
assignParcel(w, p, d) ==
    /\ idle(w)
    /\ accept
    /\ ctl' = [ctl EXCEPT ![w] = [CtlIdle EXCEPT !.op = "assignParcel", !.pc = "find",
                                                 !.parcel = p, !.drv = d, !.arg = ASSIGNED]]
    /\ UNCHANGED <<atomic, freed, parcel, recent, dlv, driver, rowLock, locks, availCache, nearbyCache, eng>>

\* Parcel.findByPk FOR UPDATE with its delivery; not pending: conflict.
assignParcelFind(w) ==
    /\ ctl[w].op = "assignParcel" /\ ctl[w].pc = "find"
    /\ ctl' = [ctl EXCEPT ![w] =
                 IF parcel[ctl[w].parcel].status # PENDING
                 THEN [@ EXCEPT !.pc = "catch", !.err = "conflict"]
                 ELSE [@ EXCEPT !.pc = "check"]]
    /\ UNCHANGED <<atomic, freed, parcel, recent, requests, dlv, driver, rowLock, locks, availCache,
                   nearbyCache, eng>>

\* availability = checkDriverAvailability(driverId), which fills the cache
\* on a miss; not available: driverUnavailable; else reserveDriver(driverId).
assignParcelCheck(w) ==
    /\ ctl[w].op = "assignParcel" /\ ctl[w].pc = "check"
    /\ LET d == ctl[w].drv
           availability == checkDriverAvailability(availCache[d], driver[d])
       IN  /\ availCache' = [availCache EXCEPT ![d] = availability]
           /\ IF ~availability.available
              THEN /\ ctl' = [ctl EXCEPT ![w].pc = "catch", ![w].err = "driverUnavailable"]
                   /\ eng' = eng
              ELSE /\ ctl' = [ctl EXCEPT ![w].pc = "reserve"]
                   /\ eng' = [eng EXCEPT ![w] = EngCall("reserve", d)]
    /\ UNCHANGED <<atomic, freed, parcel, recent, requests, dlv, driver, rowLock, locks, nearbyCache>>

\* reserveDriver returned: false: driverUnavailable; true: parcel.update(
\* {driverId, status: ASSIGNED}) and parcel.delivery.update({driverId,
\* status: 'assigned'}) staged; the delivery statement refused where the
\* status column does not admit 'assigned': the inner catch calls
\* releaseDriver(driverId).
assignParcelAfterReserve(w) ==
    /\ ctl[w].op = "assignParcel" /\ ctl[w].pc = "reserve"
    /\ eng[w].pc = "ret"
    /\ LET p == ctl[w].parcel
           seen == [ctl[w] EXCEPT !.tried = Append(@, eng[w].ret), !.loaded = loadedAfter(w)]
       IN  IF ~eng[w].ret
           THEN /\ ctl' = [ctl EXCEPT ![w] = [seen EXCEPT !.pc = "catch",
                                                          !.err = "driverUnavailable"]]
                /\ eng' = [eng EXCEPT ![w] = EngIdle]
           ELSE \/ /\ ctl' = [ctl EXCEPT ![w] =
                                [seen EXCEPT !.pc = "commit",
                                             !.read = [status |-> ASSIGNED, driverId |-> ctl[w].drv],
                                             !.del = IF deliveryOf(p) = {} THEN 0
                                                     ELSE CHOOSE x \in deliveryOf(p) : TRUE]]
                   /\ eng' = [eng EXCEPT ![w] = EngIdle]
                \/ /\ deliveryOf(p) # {}
                   /\ ctl' = [ctl EXCEPT ![w] = [seen EXCEPT !.pc = "compensate",
                                                             !.err = "update"]]
                   /\ eng' = [eng EXCEPT ![w] = EngCall("release", ctl[w].drv)]
    /\ UNCHANGED <<atomic, freed, parcel, recent, requests, dlv, driver, rowLock, locks, availCache, nearbyCache>>

\* transaction.commit(); del(parcel:<id>), del(driver:<id>), delPattern of
\* the list caches; 200.
assignParcelCommit(w) ==
    /\ ctl[w].op = "assignParcel" /\ ctl[w].pc = "commit"
    /\ parcel' = [parcel EXCEPT ![ctl[w].parcel] = ctl[w].read]
    /\ delivery' = deliveryAfter(w)
    /\ ctl' = [ctl EXCEPT ![w].pc = "done", ![w].result = "200"]
    /\ UNCHANGED <<atomic, freed, recent, requests, dRowLock, released, driver, rowLock, locks, availCache,
                   nearbyCache, eng>>

\* The inner catch's releaseDriver(driverId) returned; the error is thrown on.
assignParcelCompensated(w) ==
    /\ ctl[w].op = "assignParcel" /\ ctl[w].pc = "compensate"
    /\ eng[w].pc = "ret"
    /\ eng' = [eng EXCEPT ![w] = EngIdle]
    /\ ctl' = [ctl EXCEPT ![w].pc = "catch", ![w].unloaded = unloadedAfter(w)]
    /\ UNCHANGED <<atomic, freed, parcel, recent, requests, dlv, driver, rowLock, locks, availCache, nearbyCache>>

\* POST /parcels/:id/cancel
cancelParcel(w, p) ==
    /\ idle(w)
    /\ accept
    /\ ctl' = [ctl EXCEPT ![w] = [CtlIdle EXCEPT !.op = "cancelParcel", !.pc = "find",
                                                 !.parcel = p, !.arg = CANCELLED]]
    /\ UNCHANGED <<atomic, freed, parcel, recent, dlv, driver, rowLock, locks, availCache, nearbyCache, eng>>

\* DELETE /parcels/:id
deleteParcel(w, p) ==
    /\ idle(w)
    /\ accept
    /\ ctl' = [ctl EXCEPT ![w] = [CtlIdle EXCEPT !.op = "deleteParcel", !.pc = "find",
                                                 !.parcel = p, !.arg = "deleted"]]
    /\ UNCHANGED <<atomic, freed, parcel, recent, dlv, driver, rowLock, locks, availCache, nearbyCache, eng>>

\* POST /parcels/:id/unassign
unassignParcel(w, p) ==
    /\ idle(w)
    /\ accept
    /\ ctl' = [ctl EXCEPT ![w] = [CtlIdle EXCEPT !.op = "unassignParcel", !.pc = "find",
                                                 !.parcel = p, !.arg = PENDING]]
    /\ UNCHANGED <<atomic, freed, parcel, recent, dlv, driver, rowLock, locks, availCache, nearbyCache, eng>>

\* The statuses the handler refuses to work on.
pathRefused(op) ==
    CASE op = "cancelParcel" -> {DELIVERED, CANCELLED, LOST}
      [] op = "deleteParcel" -> {IN_TRANSIT, DELIVERED}
      [] OTHER -> {}

\* Parcel.findByPk FOR UPDATE; the handler's test of parcel.status (cancel,
\* delete) or of parcel.driverId (unassign); releaseDriver(parcel.driverId)
\* if (parcel.driverId).
pathFind(w) ==
    /\ ctl[w].op \in {"cancelParcel", "deleteParcel", "unassignParcel"}
    /\ ctl[w].pc = "find"
    /\ LET p == ctl[w].parcel
       IN  IF parcel[p].status \in pathRefused(ctl[w].op)
           THEN /\ ctl' = [ctl EXCEPT ![w].pc = "done", ![w].err = "conflict",
                                      ![w].result = "conflict"]
                /\ eng' = eng
           ELSE IF parcel[p].driverId = NoOne
           THEN /\ ctl' = [ctl EXCEPT ![w] =
                             IF ctl[w].op = "unassignParcel"
                             THEN [@ EXCEPT !.pc = "done", !.err = "validation",
                                            !.result = "validation"]
                             ELSE [@ EXCEPT !.pc = "update"]]
                /\ eng' = eng
           ELSE /\ ctl' = [ctl EXCEPT ![w].pc = "release"]
                /\ eng' = [eng EXCEPT ![w] = EngCall("release", parcel[p].driverId)]
    /\ UNCHANGED <<atomic, freed, parcel, recent, requests, dlv, driver, rowLock, locks, availCache, nearbyCache>>

\* releaseDriver returned (its value is dropped); parcel.update: {status:
\* 'cancelled'} and {status: 'deleted'} are no values of the status column's
\* enum and the statement is refused; unassign's {driverId: null, status:
\* PENDING} is written, and its parcel.delivery.update({driverId: null}) is
\* refused by the column's allowNull: false.  catch: transaction.rollback();
\* next(error), the driver's row staying as releaseDriver committed it.
pathUpdate(w) ==
    /\ ctl[w].op \in {"cancelParcel", "deleteParcel", "unassignParcel"}
    /\ \/ /\ ctl[w].pc = "update"
          /\ eng' = eng
          /\ freed' = freed
       \/ /\ ctl[w].pc = "release"
          /\ eng[w].pc = "ret"
          /\ eng' = [eng EXCEPT ![w] = EngIdle]
          /\ freed' = freedAfter(w)
    /\ LET p == ctl[w].parcel
           unloaded == IF ctl[w].pc = "release" THEN unloadedAfter(w) ELSE ctl[w].unloaded
       IN  IF ctl[w].op = "unassignParcel" /\ deliveryOf(p) = {}
           THEN /\ parcel' = [parcel EXCEPT ![p] = [status |-> PENDING, driverId |-> NoOne]]
                /\ ctl' = [ctl EXCEPT ![w].pc = "done", ![w].result = "200",
                                      ![w].unloaded = unloaded]
           ELSE /\ parcel' = parcel
                /\ ctl' = [ctl EXCEPT ![w].pc = "done", ![w].err = "update",
                                      ![w].result = "update", ![w].unloaded = unloaded]
    /\ UNCHANGED <<atomic, recent, requests, dlv, driver, rowLock, locks, availCache, nearbyCache>>

parcelStep(w) ==
    \/ parcelFind(w)
    \/ parcelCommit(w)
    \/ parcelCatch(w)
    \/ assignParcelFind(w)
    \/ assignParcelCheck(w)
    \/ assignParcelAfterReserve(w)
    \/ assignParcelCommit(w)
    \/ assignParcelCompensated(w)

\* ---------------------------------------------------------- specification
DriverRows ==
    {[currentLoad |-> 0, maxCapacity |-> c, status |-> AVAILABLE] : c \in 1..MaxCap}

\* The drivers the requests of a specification do not name.
otherDrivers(ds) == [d \in Drivers \ ds |-> [currentLoad |-> 0, maxCapacity |-> 1, status |-> AVAILABLE]]

Init ==
    /\ \E row \in DriverRows : driver = ("d1" :> row) @@ otherDrivers({"d1"})
    /\ rowLock = [d \in Drivers |-> NoTxn]
    /\ locks = {}
    /\ availCache = [d \in Drivers |-> NoEntry]
    /\ nearbyCache = NoEntry
    /\ eng = [w \in Workers |-> EngIdle]
    /\ ctl = [w \in Workers |-> CtlIdle]
    /\ delivery = [x \in Deliveries |-> NoEntry]
    /\ dRowLock = [x \in Deliveries |-> NoTxn]
    /\ released = [x \in Deliveries |-> 0]
    /\ requests = 0
    /\ parcel = [p \in Parcels |-> NewParcel]
    /\ atomic = AtomicIdle
    /\ freed = [p \in Parcels |-> 0]
    /\ recent = <<"d1", "d2", "d3", "d4">>

Next ==
    \/ \E w \in Workers : reserveDriver(w, "d1")
    \/ \E w \in Workers : releaseDriver(w, "d1")
    \/ \E w \in Workers : engStep(w)
    \/ \E w \in Workers : engReturn(w)
    \/ LockExpire(reserveKey("d1"))
    \/ LockExpire(releaseKey("d1"))
    \/ \E st \in DriverStatus : updateDriverStatus("d1", st)

\* Workers issue reserveDriver and releaseDriver calls against driver d1 in
\* any interleaving, lock keys expire at any moment, and the driver's status
\* is updated by hand.
Spec == Init /\ [][Next]_vars

\* Workers issue reserveDriver and releaseDriver calls against driver d1 in
\* any interleaving and lock keys expire at any moment; nothing else touches
\* the driver.
NextEngine ==
    \/ \E w \in Workers : reserveDriver(w, "d1")
    \/ \E w \in Workers : releaseDriver(w, "d1")
    \/ \E w \in Workers : engStep(w)
    \/ \E w \in Workers : engReturn(w)
    \/ LockExpire(reserveKey("d1"))
    \/ LockExpire(releaseKey("d1"))

SpecEngine == Init /\ [][NextEngine]_vars

\* Workers serve createDelivery, updateDeliveryStatus, deleteDelivery and
\* status webhook requests for driver d1 in any interleaving; lock keys
\* expire at any moment.
NextDelivery ==
    \/ \E w \in Workers, p \in Parcels : createDelivery(w, p, "d1")
    \/ \E w \in Workers, x \in Deliveries, st \in DeliveryStatus :
          updateDeliveryStatus(w, x, st)
    \/ \E w \in Workers, x \in Deliveries : deleteDelivery(w, x)
    \/ \E w \in Workers, x \in Deliveries, st \in DeliveryStatus :
          webhookStatus(w, x, st)
    \/ \E w \in Workers : deliveryStep(w)
    \/ \E w \in Workers : webhookStep(w)
    \/ \E w \in Workers : engStep(w)
    \/ \E x \in Deliveries : LockExpire(deliveryKey(x))
    \/ LockExpire(reserveKey("d1"))
    \/ LockExpire(releaseKey("d1"))

SpecDelivery == Init /\ [][NextDelivery]_vars

\* The DeliveryController's requests alone (no webhook), no lock expiring.
NextController ==
    \/ \E w \in Workers, p \in Parcels : createDelivery(w, p, "d1")
    \/ \E w \in Workers, x \in Deliveries, st \in DeliveryStatus :
          updateDeliveryStatus(w, x, st)
    \/ \E w \in Workers, x \in Deliveries : deleteDelivery(w, x)
    \/ \E w \in Workers : deliveryStep(w)
    \/ \E w \in Workers : engStep(w)

SpecController == Init /\ [][NextController]_vars

\* The fleet the dispatch requests find: every driver free, the two nearest
\* of any capacity.
InitDispatch ==
    /\ \E r1, r2 \in DriverRows :
          driver = ("d1" :> r1) @@ ("d2" :> r2) @@ otherDrivers({"d1", "d2"})
    /\ recent = <<"d1", "d2", "d3", "d4">>
    /\ rowLock = [d \in Drivers |-> NoTxn]
    /\ locks = {}
    /\ availCache = [d \in Drivers |-> NoEntry]
    /\ nearbyCache = NoEntry
    /\ eng = [w \in Workers |-> EngIdle]
    /\ ctl = [w \in Workers |-> CtlIdle]
    /\ delivery = [x \in Deliveries |-> NoEntry]
    /\ dRowLock = [x \in Deliveries |-> NoTxn]
    /\ released = [x \in Deliveries |-> 0]
    /\ requests = 0
    /\ parcel = [p \in Parcels |-> NewParcel]
    /\ atomic = AtomicIdle
    /\ freed = [p \in Parcels |-> 0]

\* Workers run assignOptimalDriver for deliveries of either priority while
\* others reserve drivers directly; the nearby cache entry expires at any
\* moment.
NextDispatch ==
    \/ \E w \in Workers, priority \in 1..2 : assignOptimalDriver(w, priority)
    \/ \E w \in Workers : dispatchStep(w)
    \/ \E w \in Workers : respond(w)
    \/ \E w \in Workers, d \in Drivers : reserveRequest(w, d)
    \/ \E w \in Workers : engStep(w)
    \/ \E w \in Workers : engReturn(w)
    \/ NearbyExpire

SpecDispatch == InitDispatch /\ [][NextDispatch]_vars

\* Deliveries are created for drivers d1 and d2 and assigned by hand to one
\* or the other, forced or not, in any interleaving.
InitAssign ==
    /\ \E row \in DriverRows : driver = ("d2" :> row) @@ otherDrivers({"d2"})
    /\ recent = <<"d1", "d2", "d3", "d4">>
    /\ rowLock = [d \in Drivers |-> NoTxn]
    /\ locks = {}
    /\ availCache = [d \in Drivers |-> NoEntry]
    /\ nearbyCache = NoEntry
    /\ eng = [w \in Workers |-> EngIdle]
    /\ ctl = [w \in Workers |-> CtlIdle]
    /\ delivery = [x \in Deliveries |-> NoEntry]
    /\ dRowLock = [x \in Deliveries |-> NoTxn]
    /\ released = [x \in Deliveries |-> 0]
    /\ requests = 0
    /\ parcel = [p \in Parcels |-> NewParcel]
    /\ atomic = AtomicIdle
    /\ freed = [p \in Parcels |-> 0]

NextAssign ==
    \/ \E w \in Workers, p \in Parcels, d \in {"d1", "d2"} : createDelivery(w, p, d)
    \/ \E w \in Workers, x \in Deliveries, d \in {"d1", "d2"}, force \in BOOLEAN :
          assignDeliveryToDriver(w, x, d, force)
    \/ \E w \in Workers : createFindOne(w)
    \/ \E w \in Workers : createAfterReserve(w)
    \/ \E w \in Workers : respond(w)
    \/ \E w \in Workers : assignStep(w)
    \/ \E w \in Workers : engStep(w)

SpecAssign == InitAssign /\ [][NextAssign]_vars

\* Drivers d1 and d2 in range and free, d3 gone offline, d4 out of range.
InitEmergency ==
    /\ \E row \in DriverRows :
          driver = ("d1" :> row) @@ ("d3" :> [currentLoad |-> 0, maxCapacity |-> 1,
                                              status |-> OFFLINE])
                   @@ otherDrivers({"d1", "d3"})
    /\ recent = <<"d1", "d2", "d3", "d4">>
    /\ rowLock = [d \in Drivers |-> NoTxn]
    /\ locks = {}
    /\ availCache = [d \in Drivers |-> NoEntry]
    /\ nearbyCache = NoEntry
    /\ eng = [w \in Workers |-> EngIdle]
    /\ ctl = [w \in Workers |-> CtlIdle]
    /\ delivery = [x \in Deliveries |-> NoEntry]
    /\ dRowLock = [x \in Deliveries |-> NoTxn]
    /\ released = [x \in Deliveries |-> 0]
    /\ requests = 0
    /\ parcel = [p \in Parcels |-> NewParcel]
    /\ atomic = AtomicIdle
    /\ freed = [p \in Parcels |-> 0]

\* Deliveries are created for d1 and d2 and drivers replaced in an emergency,
\* one request after the other.
NextEmergency ==
    \/ \E w \in Workers, p \in Parcels, d \in {"d1", "d2"} :
          quiescent /\ createDelivery(w, p, d)
    \/ \E w \in Workers, d \in {"d1", "d2"}, x \in Deliveries :
          quiescent /\ emergencyDriverReplacement(w, d, x)
    \/ \E w \in Workers : createFindOne(w)
    \/ \E w \in Workers : createAfterReserve(w)
    \/ \E w \in Workers : respond(w)
    \/ \E w \in Workers : emergencyStep(w)
    \/ \E w \in Workers : dispatchStep(w)
    \/ \E w \in Workers : engStep(w)

SpecEmergency == InitEmergency /\ [][NextEmergency]_vars

\* reserveDriver and releaseDriver calls against driver d1 in any
\* interleaving, every call over before its lock key's TTL.
NextLocked ==
    \/ \E w \in Workers : reserveDriver(w, "d1")
    \/ \E w \in Workers : releaseDriver(w, "d1")
    \/ \E w \in Workers : engStep(w)
    \/ \E w \in Workers : engReturn(w)

SpecLocked == Init /\ [][NextLocked]_vars

\* reserveDriver and releaseDriver calls against driver d1 while the store
\* and the database fail at any call.
NextFaults ==
    \/ \E w \in Workers : reserveDriver(w, "d1")
    \/ \E w \in Workers : releaseDriver(w, "d1")
    \/ \E w \in Workers : engStep(w)
    \/ \E w \in Workers : engReturn(w)
    \/ \E w \in Workers : engAcquireError(w)
    \/ \E w \in Workers : engBeginThrow(w)
    \/ \E w \in Workers : engThrow(w)
    \/ LockExpire(reserveKey("d1"))
    \/ LockExpire(releaseKey("d1"))

SpecFaults == Init /\ [][NextFaults]_vars

\* One worker serves, one request after the other: parcels assigned to
\* driver d1, their status updated, deliveries created for them with d1,
\* and d1's status updated.
NextParcel ==
    \/ \E p \in Parcels : quiescent /\ assignParcel("w1", p, "d1")
    \/ \E p \in Parcels, status \in RequestStatus :
          quiescent /\ updateParcelStatus("w1", p, status)
    \/ \E p \in Parcels : quiescent /\ createDelivery("w1", p, "d1")
    \/ \E status \in DriverStatus : quiescent /\ updateDriverStatus("d1", status)
    \/ createFindOne("w1")
    \/ createAfterReserve("w1")
    \/ parcelStep("w1")
    \/ respond("w1")
    \/ engStep("w1")

SpecParcel == Init /\ [][NextParcel]_vars

\* The rows a driver of capacity up to MaxCap can have.
NearbyRows ==
    LET loads == {lc \in (0..MaxCap) \X (1..MaxCap) : lc[1] <= lc[2]}
    IN  {[currentLoad |-> lc[1], maxCapacity |-> lc[2],
          status |-> IF lc[1] < lc[2] THEN AVAILABLE ELSE BUSY] : lc \in loads}
          \cup {[currentLoad |-> 0, maxCapacity |-> 1, status |-> OFFLINE]}

InitNearby ==
    /\ driver \in [Drivers -> NearbyRows]
    /\ recent = <<"d1", "d2", "d3", "d4">>
    /\ rowLock = [d \in Drivers |-> NoTxn]
    /\ locks = {}
    /\ availCache = [d \in Drivers |-> NoEntry]
    /\ nearbyCache = NoEntry
    /\ eng = [w \in Workers |-> EngIdle]
    /\ ctl = [w \in Workers |-> CtlIdle]
    /\ delivery = [x \in Deliveries |-> NoEntry]
    /\ dRowLock = [x \in Deliveries |-> NoTxn]
    /\ released = [x \in Deliveries |-> 0]
    /\ requests = 0
    /\ parcel = [p \in Parcels |-> NewParcel]
    /\ atomic = AtomicIdle
    /\ freed = [p \in Parcels |-> 0]

\* Nearby searches, each missing the cache, over a fleet in any state.
NextNearby ==
    \/ \E radius \in Radii, limit \in 1..MaxLimit :
          findAvailableDriversNearby("w1", radius, limit)
    \/ nearbyMiss("w1")
    \/ respond("w1")

SpecNearby == InitNearby /\ [][NextNearby]_vars

\* One worker runs assignOptimalDriver, one request after the other, while
\* the database fails at any statement of reserveDriver and rows of the two
\* nearest drivers are deleted from outside.
NextDispatchFaults ==
    \/ \E priority \in 1..2 : assignOptimalDriver("w1", priority)
    \/ dispatchStep("w1")
    \/ respond("w1")
    \/ engStep("w1")
    \/ engBeginThrow("w1")
    \/ engThrow("w1")
    \/ engNotFound("w1")
    \/ \E d \in {"d1", "d2"} : driverRemoved(d)

SpecDispatchFaults == InitDispatch /\ [][NextDispatchFaults]_vars

\* reserveDriver calls against driver d1, a caller at times outliving the
\* TTL of the key it holds alone.
NextOwner ==
    \/ \E w \in Workers : reserveDriver(w, "d1")
    \/ \E w \in Workers : engStep(w)
    \/ \E w \in Workers : engReturn(w)
    \/ \E w \in Workers : holderOutlivesLock(w)

SpecOwner == Init /\ [][NextOwner]_vars

\* The calls of atomicOperation two requests of one server make on one key,
\* each with any maxRetries, while another client writes the key.
NextAtomic ==
    \/ \E w \in Workers, maxRetries \in 1..MaxRetries : atomicOperation(w, maxRetries)
    \/ \E w \in Workers : atomicWatch(w)
    \/ \E w \in Workers : atomicGet(w)
    \/ \E w \in Workers : atomicExec(w)
    \/ otherClientSet

SpecAtomic == Init /\ [][NextAtomic]_vars

\* Deliveries are created for driver d1, one request after the other, and
\* the insert may fail.
NextCreate ==
    \/ \E w \in Workers, p \in Parcels : quiescent /\ createDelivery(w, p, "d1")
    \/ \E w \in Workers : createFindOne(w)
    \/ \E w \in Workers : createAfterReserve(w)
    \/ \E w \in Workers : createThrows(w)
    \/ \E w \in Workers : respond(w)
    \/ \E w \in Workers : engStep(w)

SpecCreate == Init /\ [][NextCreate]_vars

\* Parcels are assigned to driver d1, each once, and then moved, cancelled,
\* unassigned and deleted, one request after the other.
NextPath ==
    \/ \E p \in Parcels : quiescent /\ freed[p] = 0 /\ assignParcel("w1", p, "d1")
    \/ \E p \in Parcels, status \in {DELIVERED, CANCELLED} :
          quiescent /\ updateParcelStatus("w1", p, status)
    \/ \E p \in Parcels : quiescent /\ cancelParcel("w1", p)
    \/ \E p \in Parcels : quiescent /\ deleteParcel("w1", p)
    \/ \E p \in Parcels : quiescent /\ unassignParcel("w1", p)
    \/ parcelFind("w1")
    \/ parcelCommit("w1")
    \/ parcelCatch("w1")
    \/ assignParcelFind("w1")
    \/ assignParcelCheck("w1")
    \/ assignParcelAfterReserve("w1")
    \/ assignParcelCommit("w1")
    \/ pathFind("w1")
    \/ pathUpdate("w1")
    \/ respond("w1")
    \/ engStep("w1")

SpecPath == Init /\ [][NextPath]_vars

\* The distances two placements of a driver give from the pickup location.
Distances == {1000, 3000}

\* findAvailableDriversNearby past the cache for drivers placed at the
\* distances at[d], rows being what findAll returned: the rows within the
\* radius, the nearest first (stable: rows at one distance keep the order
\* findAll gave them).
nearbyDriversAt(at, rows, radius) ==
    LET mapped == [k \in 1..Len(rows) |-> [nearbyDriver(rows[k]) EXCEPT !.distance = at[rows[k]]]]
        within == SelectSeq(mapped, LAMBDA n : n.distance <= radius)
    IN  sort(within, byDistance(within))

\* The drivers stand at any of the distances, were last updated in either
\* order, and a search has cached its list of them.
InitScore ==
    /\ \E r1, r2 \in DriverRows :
          driver = ("d1" :> r1) @@ ("d2" :> r2) @@ otherDrivers({"d1", "d2"})
    /\ recent \in {<<"d1", "d2", "d3", "d4">>, <<"d4", "d3", "d2", "d1">>}
    /\ rowLock = [d \in Drivers |-> NoTxn]
    /\ locks = {}
    /\ availCache = [d \in Drivers |-> NoEntry]
    /\ \E at \in [Drivers -> Distances], rows \in {findAll(nearbyLimit)} :
          nearbyCache = [list |-> nearbyDriversAt(at, rows, NEARBY_RADIUS)]
    /\ eng = [w \in Workers |-> EngIdle]
    /\ ctl = [w \in Workers |-> CtlIdle]
    /\ delivery = [x \in Deliveries |-> NoEntry]
    /\ dRowLock = [x \in Deliveries |-> NoTxn]
    /\ released = [x \in Deliveries |-> 0]
    /\ requests = 0
    /\ parcel = [p \in Parcels |-> NewParcel]
    /\ atomic = AtomicIdle
    /\ freed = [p \in Parcels |-> 0]

\* assignOptimalDriver runs on the cached list, for deliveries of either
\* priority, one call at a time.
NextScore ==
    \/ \E priority \in 1..2 : nearbyCache # NoEntry /\ assignOptimalDriver("w1", priority)
    \/ nearbyGet("w1")
    \/ scoreDrivers("w1")
    \/ tryReserve("w1")
    \/ afterReserve("w1")
    \/ respond("w1")
    \/ engStep("w1")

SpecScore == InitScore /\ [][NextScore]_vars

\* ------------------------------------------------------------------ claims
inLockedSection(w) == eng[w].pc \in {"find", "update", "cache", "delPattern", "commit"}

InitRace ==
    /\ \E c \in 1..MaxCap :
          driver = ("d1" :> [currentLoad |-> c - 1, maxCapacity |-> c, status |-> AVAILABLE])
                   @@ otherDrivers({"d1"})
    /\ rowLock = [d \in Drivers |-> NoTxn]
    /\ locks = {}
    /\ availCache = [d \in Drivers |-> NoEntry]
    /\ nearbyCache = NoEntry
    /\ eng = [w \in Workers |-> EngCall("reserve", "d1")]
    /\ ctl = [w \in Workers |-> CtlIdle]
    /\ delivery = [x \in Deliveries |-> NoEntry]
    /\ dRowLock = [x \in Deliveries |-> NoTxn]
    /\ released = [x \in Deliveries |-> 0]
    /\ requests = 0
    /\ parcel = [p \in Parcels |-> NewParcel]
    /\ atomic = AtomicIdle
    /\ freed = [p \in Parcels |-> 0]
    /\ recent = <<"d1", "d2", "d3", "d4">>

NextRace ==
    \/ \E w \in Workers : engStep(w)
    \/ LockExpire(reserveKey("d1"))

SpecRace == InitRace /\ [][NextRace]_vars

returned(w) == eng[w].pc = "ret"

C4_ReserveThenRelease ==
    \A w \in Workers :
        /\ ( /\ eng[w].op = "reserve" /\ eng[w].pc \in {"finally", "ret"}
             /\ eng[w].read = [currentLoad |-> 0, maxCapacity |-> 1, status |-> AVAILABLE] )
           => ( /\ eng[w].ret /\ eng[w].wrote
                /\ eng[w].row = [currentLoad |-> 1, maxCapacity |-> 1, status |-> BUSY] )
        /\ ( /\ eng[w].op = "release" /\ eng[w].pc \in {"finally", "ret"}
             /\ eng[w].read = [currentLoad |-> 1, maxCapacity |-> 1, status |-> BUSY] )
           => ( /\ eng[w].ret /\ eng[w].wrote
                /\ eng[w].row = [currentLoad |-> 0, maxCapacity |-> 1, status |-> AVAILABLE] )

\* C5: for every driver whose status is not OFFLINE, status is BUSY if and
\* only if currentLoad = maxCapacity, and AVAILABLE otherwise.
C5_BusyIffFull ==
    \A d \in Drivers :
        driver[d].status # OFFLINE =>
            (driver[d].status = BUSY <=> driver[d].currentLoad = driver[d].maxCapacity)

activeDeliveries(d) ==
    {x \in Deliveries : live(x) /\ delivery[x].status = STARTED /\ delivery[x].driverId = d}

\* C3: in every quiescent state, every driver's currentLoad is the number of
\* active (STARTED) deliveries that reference the driver.
C3_LoadCountsActiveDeliveries ==
    quiescent => \A d \in Drivers : driver[d].currentLoad = Cardinality(activeDeliveries(d))

\* C8: a delivery that has gone to COMPLETED or CANCELLED has had its driver
\* released exactly once: once the requests are answered the count of
\* successful releases made for it is 1, and it never exceeds 1.
C8_ReleasedExactlyOnce ==
    \A x \in Deliveries :
        /\ released[x] <= 1
        /\ (quiescent /\ live(x) /\ delivery[x].status \in {COMPLETED, CANCELLED})
              => released[x] = 1

\* C9: a delivery's status only changes from STARTED to COMPLETED or from
\* STARTED to CANCELLED, through every entry point.
C9_OnlyValidTransitions ==
    [][\A x \in Deliveries :
         (live(x) /\ delivery'[x] # Deleted /\ delivery'[x].status # delivery[x].status)
           => (delivery[x].status = STARTED /\ delivery'[x].status \in {COMPLETED, CANCELLED})]_vars

\* A worker whose assignOptimalDriver has returned after scoring candidates.
assignedFrom(w) ==
    /\ ctl[w].op = "assignOptimalDriver"
    /\ ctl[w].pc = "done"
    /\ Len(ctl[w].cands) > 0

assignReturned(w) == ctl[w].op = "assignOptimalDriver" /\ ctl[w].pc = "done"

assigning(w) == ctl[w].op = "assignDeliveryToDriver"

\* C12: when the reserveDriver call of an assignDeliveryToDriver request
\* returns false, the request fails with driverUnavailable, its calls have
\* written no driver's row, and the delivery row it holds is as it found it,
\* still naming the previous driver.
C12_FailedReservationUntouched ==
    \A w \in Workers :
        (assigning(w) /\ ctl[w].tried = <<FALSE>>) =>
            /\ ctl[w].pc \in {"catch", "done"}
            /\ ctl[w].err = "driverUnavailable"
            /\ ctl[w].loaded = <<>>
            /\ ctl[w].unloaded = <<>>
            /\ ctl[w].pc = "catch" =>
                  /\ delivery[ctl[w].del] = ctl[w].read
                  /\ delivery[ctl[w].del].driverId = ctl[w].prev

\* A forced reassignment from the delivery's driver to another driver, which
\* is full, has failed; the delivery names the driver it named before.
C12_Witness ==
    \E w \in Workers :
        /\ assigning(w)
        /\ ctl[w].pc = "done"
        /\ ctl[w].force
        /\ ctl[w].prev \notin {NoOne, ctl[w].drv}
        /\ ctl[w].result = "driverUnavailable"
        /\ driver[ctl[w].drv].currentLoad = driver[ctl[w].drv].maxCapacity
        /\ delivery[ctl[w].del].driverId = ctl[w].prev
        /\ driver[ctl[w].prev].currentLoad >= 1

C14_ConflictWithoutForce ==
    \A w \in Workers :
        (/\ assigning(w)
         /\ ctl[w].pc # "find"
         /\ ~ctl[w].force
         /\ ctl[w].prev \notin {NoOne, ctl[w].drv}) =>
            /\ ctl[w].pc \in {"catch", "done"}
            /\ ctl[w].err = "conflict"
            /\ eng[w].pc = "idle"
            /\ ctl[w].tried = <<>>
            /\ ctl[w].loaded = <<>>
            /\ ctl[w].unloaded = <<>>
            /\ ctl[w].pc = "catch" => delivery[ctl[w].del].driverId = ctl[w].prev

\* A request without force was answered with the conflict while the delivery
\* names the other driver.
C14_Witness ==
    \E w \in Workers :
        /\ assigning(w)
        /\ ctl[w].pc = "done"
        /\ ~ctl[w].force
        /\ ctl[w].result = "conflict"
        /\ ctl[w].prev \notin {NoOne, ctl[w].drv}
        /\ live(ctl[w].del)
        /\ delivery[ctl[w].del].driverId = ctl[w].prev

replaced(w) == ctl[w].op = "emergencyDriverReplacement" /\ ctl[w].pc = "done"

\* C15: emergencyDriverReplacement of driver D on its delivery X, called when
\* exactly one other driver E is eligible and in range, with nothing else
\* running: D's row was written by the release, E's by the reservation, E is
\* returned and X names E.
C15_ReplacedByTheOther ==
    \A w \in Workers :
        (replaced(w) /\ ctl[w].arg # NoOne /\ live(ctl[w].del)) =>
            /\ ctl[w].unloaded = <<ctl[w].drv>>
            /\ ctl[w].loaded = <<ctl[w].arg>>
            /\ ctl[w].result = ctl[w].arg
            /\ delivery[ctl[w].del].driverId = ctl[w].arg

\* C16: when emergencyDriverReplacement returns null, the delivery no longer
\* names the driver that was released.
C16_UnassignedOnFailure ==
    \A w \in Workers :
        (replaced(w) /\ ctl[w].err = "" /\ ctl[w].result = NoOne /\ live(ctl[w].del)) =>
            delivery[ctl[w].del].driverId # ctl[w].drv

\* C17: between a caller's successful acquireLock(key) and its releaseLock(key),
\* with no key outliving its TTL, the key is set and no other caller has
\* acquired it: at most one caller holds a key.
C17_OneHolderPerKey ==
    \A w \in Workers :
        eng[w].held =>
            /\ engKey(eng[w]) \in locks
            /\ \A v \in Workers \ {w} : eng[v].held => engKey(eng[v]) # engKey(eng[w])

\* While one caller holds a key, another caller's acquireLock of the same key
\* has returned false.
C17_Witness ==
    \E w, v \in Workers :
        /\ w # v
        /\ eng[w].held
        /\ engKey(eng[v]) = engKey(eng[w])
        /\ eng[v].pc = "ret" /\ ~eng[v].ret /\ eng[v].read = NoEntry

\* C18: when reserveDriver or releaseDriver returns or throws, the lock it
\* acquired has been released, and a call that threw has committed nothing.
C18_LockReleasedOnReturn ==
    \A w \in Workers :
        eng[w].pc = "ret" => (~eng[w].held /\ (eng[w].thrown => ~eng[w].wrote))

\* C19: with no key outliving its TTL, no two of the reserveDriver and
\* releaseDriver calls on the same driver are inside their locked sections
\* at the same time.
C19_OneLockPerDriver ==
    \A w, v \in Workers :
        (w # v /\ eng[w].held /\ eng[v].held) => eng[w].drv # eng[v].drv

\* C20: when the lock SET raised an error, reserveDriver / releaseDriver
\* return false having neither read nor written the driver's row.
C20_FailClosed ==
    \A w \in Workers :
        eng[w].err = "store" =>
            /\ eng[w].pc = "ret"
            /\ ~eng[w].ret
            /\ ~eng[w].held
            /\ eng[w].read = NoEntry
            /\ ~eng[w].wrote

\* A call whose lock SET raised an error has returned false on a driver
\* that it could have reserved.
C20_Witness ==
    \E w \in Workers :
        /\ eng[w].err = "store"
        /\ eng[w].pc = "ret"
        /\ eng[w].op = "reserve"
        /\ ~eng[w].ret
        /\ ~reserveRefused(driver[eng[w].drv])
        /\ engKey(eng[w]) \notin locks

\* C21: a reserveDriver or releaseDriver call that finds its lock key set
\* makes one acquisition attempt: its next step returns false, without
\* throwing, without taking the lock or reading the row, and with every
\* driver row as it was.
C21_ContentionReturnsFalse ==
    [][\A w \in Workers :
          ( /\ eng[w].pc = "acquire"
            /\ engKey(eng[w]) \in locks
            /\ eng'[w] # eng[w] )
          => ( /\ eng'[w].pc = "ret"
               /\ ~eng'[w].ret
               /\ ~eng'[w].thrown
               /\ ~eng'[w].held
               /\ eng'[w].read = NoEntry
               /\ locks' = locks
               /\ driver' = driver )]_vars

\* A releaseDriver call has returned false from its only attempt while
\* another releaseDriver call of the same driver holds the key.
C21_Witness ==
    \E w, v \in Workers :
        /\ w # v
        /\ eng[v].op = "release" /\ eng[v].held
        /\ eng[w].op = "release" /\ eng[w].drv = eng[v].drv
        /\ eng[w].pc = "ret" /\ ~eng[w].ret /\ ~eng[w].thrown
        /\ eng[w].read = NoEntry /\ eng[w].err = ""

\* C22: a driver's currentLoad and status change only in a step of a
\* reserveDriver / releaseDriver call that holds that driver's lock key.
C22_ChangedOnlyUnderLock ==
    [][\A d \in Drivers :
          driver'[d] # driver[d] =>
              \E w \in Workers :
                  /\ eng[w].drv = d
                  /\ eng[w].held
                  /\ engKey(eng[w]) \in locks
                  /\ eng'[w] # eng[w]]_vars

\* The driver delivery x refers to; NoOne where there is no such delivery.
driverRef(x) == IF live(x) THEN delivery[x].driverId ELSE NoOne

\* C23: a delivery's driver reference is written (set at creation, or
\* changed) only in a step taken while the reservation lock key of the
\* driver it then names is set.
C23_ReferenceWrittenUnderLock ==
    [][\A x \in Deliveries :
          (driverRef(x)' # driverRef(x) /\ driverRef(x)' # NoOne)
              => reserveKey(driverRef(x)') \in locks]_vars

\* C24: the capacity cache never decides a reservation.  Requests are served
\* one after the other, so with an absent cache an assignParcel request for
\* a driver whose durable row reserveDriver accepts is not refused: when a
\* request is refused as driverUnavailable at its availability check, before
\* any reserveDriver call, the durable row is one reserveDriver refuses.
C24_CacheNeverDecides ==
    [][\A w \in Workers :
          ( /\ ctl[w].op = "assignParcel"
            /\ ctl[w].pc = "check"
            /\ ctl'[w].pc = "catch" )
          => reserveRefused(driver[ctl[w].drv])]_vars

\* The statuses the specification's parcel table makes terminal.
ParcelTerminal == {DELIVERED, CANCELLED, RETURNED, LOST}

\* C30: when updateParcelStatus commits a move of a parcel to DELIVERED,
\* CANCELLED, RETURNED or LOST, the status it stores is one from which the
\* transition table accepts no further status.
C30_TerminalIsFinal ==
    [][\A w \in Workers :
          ( /\ ctl[w].op = "updateParcelStatus"
            /\ ctl[w].arg \in ParcelTerminal
            /\ ctl'[w].pc = "done" /\ ctl[w].pc # "done"
            /\ ctl'[w].result = "200" )
          => parcelTransitions(parcel'[ctl[w].parcel].status) = {}]_vars

\* The drivers a nearby search is to choose from: AVAILABLE, with spare
\* capacity, within the radius.
eligibleNearby(radius) ==
    {d \in Drivers : /\ driver[d].status = AVAILABLE
                     /\ driver[d].currentLoad < driver[d].maxCapacity
                     /\ profile[d].distance <= radius}

\* The limit nearest of them, the nearest first.
nearestEligible(radius, limit) ==
    LET found == eligibleNearby(radius)
        rank(d) == Cardinality({e \in found : profile[e].distance < profile[d].distance}) + 1
        n == IF Cardinality(found) < limit THEN Cardinality(found) ELSE limit
    IN  [k \in 1..n |-> CHOOSE d \in found : rank(d) = k]

\* C25: on a cache miss findAvailableDriversNearby(location, radius, limit)
\* returns the limit nearest of the eligible drivers within the radius, the
\* nearest first.
C25_NearestWithinRadius ==
    [][\A w \in Workers :
          (ctl[w].pc = "nearbyMiss" /\ ctl'[w].pc = "done")
          => [k \in 1..Len(ctl'[w].cands) |-> ctl'[w].cands[k].id]
               = nearestEligible(ctl[w].arg.radius, ctl[w].arg.limit)]_vars

\* C26: once a reserveDriver call has committed and returned true, no
\* drivers:nearby:* entry computed from the driver's row as it was before
\* that commit is readable.  Loads only grow where only reservations are
\* made, so a cached list that shows the driver with the load the call read
\* was computed before the call's commit.
C26_NearbyCacheInvalidated ==
    \A w \in Workers :
        ( /\ eng[w].op = "reserve"
          /\ eng[w].pc = "ret"
          /\ eng[w].ret
          /\ nearbyCache # NoEntry )
        => \A k \in 1..Len(nearbyCache.list) :
              nearbyCache.list[k].id = eng[w].drv
                  => nearbyCache.list[k].currentLoad # eng[w].read.currentLoad

\* C27: an unknown driver id is never reported as unavailability: an
\* assignOptimalDriver request one of whose reserveDriver calls raised
\* NotFound does not answer that no driver is available.
C27_NotFoundSurfaced ==
    \A w \in Workers :
        ( /\ ctl[w].op = "assignOptimalDriver"
          /\ ctl[w].pc = "done"
          /\ ctl[w].err = "notFound" )
        => ctl[w].result # NoOne

\* C28: an assignOptimalDriver request answers that no driver is available
\* only when its candidates were unavailable: a request whose candidates'
\* reserveDriver calls failed with a database error answers something else.
C28_FailureDistinguished ==
    \A w \in Workers :
        ( /\ ctl[w].op = "assignOptimalDriver"
          /\ ctl[w].pc = "done"
          /\ ctl[w].err = "thrown" )
        => ctl[w].result # NoOne

\* C29: a step that takes a unit of load from a driver makes its status
\* AVAILABLE only from BUSY at full capacity, and leaves OFFLINE as it is.
C29_ReleaseKeepsOffline ==
    [][\A d \in Drivers :
          driver'[d].currentLoad < driver[d].currentLoad =>
              /\ driver[d].status = OFFLINE => driver'[d].status = OFFLINE
              /\ (driver'[d].status = AVAILABLE /\ driver[d].status # AVAILABLE)
                    => ( /\ driver[d].status = BUSY
                         /\ driver[d].currentLoad = driver[d].maxCapacity )]_vars

\* C31: the lock tracks no owner: the releaseLock(key) of a caller's finally
\* leaves the key unset whoever set it, the caller's own lock having expired
\* or not.
C31_ReleaseWhoeverAcquired ==
    [][\A w \in Workers :
          (eng[w].pc = "finally" /\ eng'[w].pc = "ret")
              => engKey(eng[w]) \notin locks']_vars

\* Two callers are inside the locked section of one key and the lock of
\* neither has expired: the second acquired after the first's lock was
\* deleted by a caller whose own lock had expired.
C31_Witness ==
    \E w, v \in Workers :
        /\ w # v
        /\ eng[w].held /\ eng[v].held
        /\ eng[w].pc # "ret" /\ eng[v].pc # "ret"
        /\ engKey(eng[w]) = engKey(eng[v])
        /\ eng[w].err = "" /\ eng[v].err = ""
        /\ engKey(eng[w]) \in locks

\* C32: when updateParcelStatus commits PENDING -> IN_TRANSIT, the status it
\* stores is one from which the transition table accepts DELIVERED, RETURNED
\* and LOST.
C32_InTransitGoesOn ==
    [][\A w \in Workers :
          ( /\ ctl[w].op = "updateParcelStatus"
            /\ ctl[w].arg = IN_TRANSIT
            /\ ctl[w].pc # "done" /\ ctl'[w].pc = "done"
            /\ ctl'[w].result = "200" )
          => parcelTransitions(parcel'[ctl[w].parcel].status)
               = {DELIVERED, RETURNED, LOST}]_vars

\* C33: reserveDriver / releaseDriver write a driver's capacity cache entry
\* only after their transaction has committed.
C33_CacheAfterCommit ==
    [][\A d \in Drivers :
          availCache'[d] # availCache[d] =>
              \E w \in Workers : eng[w].drv = d /\ eng[w].wrote /\ eng'[w] # eng[w]]_vars

\* The order of the drivers' identities.
identity == [d \in Drivers |-> CHOOSE i \in 1..4 : d = <<"d1", "d2", "d3", "d4">>[i]]

\* a comes before b in the order the specification gives the attempts.
attemptedBefore(a, b) ==
    \/ a.score > b.score
    \/ a.score = b.score /\ a.distance < b.distance
    \/ a.score = b.score /\ a.distance = b.distance /\ identity[a.id] < identity[b.id]

\* C34: the list assignOptimalDriver walks is by score descending, equal
\* scores by distance ascending, then by driver identity.
C34_AttemptOrder ==
    [][\A w \in Workers :
          (ctl[w].pc = "score" /\ ctl'[w].pc = "loop")
              => \A i, j \in 1..Len(ctl'[w].cands) :
                    i < j => attemptedBefore(ctl'[w].cands[i], ctl'[w].cands[j])]_vars

\* C35: a write of atomicOperation stores operation(v) for the value v the
\* key holds immediately before the write.
C35_NoLostUpdate ==
    [][\A w \in Workers :
          (atomic.call[w].pc = "exec" /\ atomic'.call[w].result = "written")
              => atomic.value = atomic.call[w].read]_vars

\* C36: with no manual status change, a reserveDriver call that holds the
\* lock and reads the driver's row with currentLoad 0 returns true: a driver
\* released back to load 0 is reservable again.
C36_ReusableWhenEmpty ==
    \A w \in Workers :
        ( /\ eng[w].op = "reserve" /\ eng[w].pc = "ret"
          /\ eng[w].read # NoEntry
          /\ eng[w].read.currentLoad = 0 )
        => eng[w].ret

\* C37: emergencyDriverReplacement never returns the driver it was called to
\* replace.
C37_NeverItsOwnReplacement ==
    \A w \in Workers :
        (ctl[w].op = "emergencyDriverReplacement" /\ ctl[w].pc = "done")
            => ctl[w].result # ctl[w].prev

\* C38: a createDelivery request that ends without having created a delivery
\* leaves the requested driver's row as its reserveDriver call read it.
C38_AllOrNothing ==
    [][\A w \in Workers :
          ( /\ ctl[w].op = "createDelivery"
            /\ ctl[w].pc = "reserve" /\ ctl'[w].pc = "done"
            /\ ctl'[w].result # "201"
            /\ eng[w].read # NoEntry )
          => driver'[ctl[w].drv] = eng[w].read]_vars

\* C39: no two deliveries name the same parcel.
C39_OneDeliveryPerParcel ==
    \A x, y \in Deliveries :
        (live(x) /\ live(y) /\ delivery[x].parcelId = delivery[y].parcelId) => x = y

\* C40: the releaseDriver calls made for a parcel that was assigned once take
\* at most one load off its driver.
C40_ReleasedAtMostOnce ==
    \A p \in Parcels : freed[p] <= 1
====
